---- MODULE Spec2Model ----
(***************************************************************************)
(* Tick ingestion and reconciliation engine of SPtraderB: the Dukascopy    *)
(* ingesters (crypto, forex, catch-up), their storage write path and the    *)
(* gap detector.                                                            *)
(*                                                                          *)
(* Time is an integer count of units; an hour is UnitsPerHour units and a   *)
(* day is HoursPerDay hours (24 in the source; the model scales the day).   *)
(* A timestamp t lies in the hourly bucket TruncHour(t).                    *)
(***************************************************************************)
EXTENDS Integers, Sequences, FiniteSets, TLC

\* ------------------------------------------------------------------ bounds
UnitsPerHour == 2
HoursPerDay == 2
MaxTime == 1
MaxQuote == 2
MaxBatch == 2
MaxWrites == 3

\* ------------------------------------------------------------------ state
VARIABLES
    bitcoin_ticks,   \* committed rows of table bitcoin_ticks
    forex_ticks,     \* committed rows of table forex_ticks
    w_seq,           \* number of writes run so far
    w_last,          \* the last write: writer, batch, fault, outcome
    w_again,         \* the last write repeated the batch of the one before it
    w_first,         \* outcome of the write before the repetition
    w_before,        \* both tables as they were before the last write
    lww,             \* per table and key: the values of the last committed write holding the key
    fm,              \* the last find_missing_hours call: arguments and result
    run,             \* the ingestion run in progress: its position and locals
    tasks,           \* the hourly fetch coroutines of the run: hour -> position, attempt, result
    permits,         \* free permits of the run's semaphore
    refreshes,       \* aggregate-refresh calls issued to the store so far
    flog             \* the run's log: requests, waits, gathers and writes, in order

storeVars == <<bitcoin_ticks, forex_ticks>>
writeVars == <<w_seq, w_last, w_again, w_first, w_before, lww>>
runVars == <<run, tasks, permits, refreshes, flog>>
vars == <<bitcoin_ticks, forex_ticks, w_seq, w_last, w_again, w_first, w_before, lww,
          fm, run, tasks, permits, refreshes, flog>>

\* ------------------------------------------------------------------ time
TruncHour(t) == (t \div UnitsPerHour) * UnitsPerHour

\* ------------------------------------------------------------------ idle parts
FmNone == [called |-> FALSE]
RunNone == [pc |-> "none", kind |-> "none"]
WriteIdle ==
    /\ w_seq = 0
    /\ w_last = [writer |-> "bitcoin", batch |-> <<>>, fault |-> 0, outcome |-> "none"]
    /\ w_again = FALSE
    /\ w_first = "none"
    /\ w_before = <<{}, {}>>
    /\ lww = <<>>
RunIdle ==
    /\ run = RunNone
    /\ tasks = <<>>
    /\ permits = 0
    /\ refreshes = <<>>
    /\ flog = <<>>

\* ------------------------------------------------------------------ rows
QuoteOf(n) == [bid |-> n, ask |-> n + 1, bid_size |-> n - 1, ask_size |-> n]
Quotes == {QuoteOf(n) : n \in 1..MaxQuote}

\* A tick as the decoders build it (a dict of the range ingesters).
Tick(t, s, q) ==
    [time |-> t, symbol |-> s, bid |-> q.bid, ask |-> q.ask,
     bid_size |-> q.bid_size, ask_size |-> q.ask_size]
\* A tick as the catch-up decoder builds it: it also carries the source.
CatchupTick(t, s, q) ==
    [time |-> t, symbol |-> s, bid |-> q.bid, ask |-> q.ask,
     bid_size |-> q.bid_size, ask_size |-> q.ask_size, source |-> "dukascopy"]

Key(r) == <<r.symbol, r.time>>
SameKey(r1, r2) == r1.symbol = r2.symbol /\ r1.time = r2.time
Values(r) == [bid |-> r.bid, ask |-> r.ask, bid_size |-> r.bid_size, ask_size |-> r.ask_size]

CryptoSymbolsUsed == {"BTCUSD"}
ForexSymbolsUsed == {"EURUSD"}
Times == 0..MaxTime

BitcoinBatchRows == {Tick(t, s, q) : t \in Times, s \in CryptoSymbolsUsed, q \in Quotes}
ForexBatchRows == {Tick(t, s, q) : t \in Times, s \in ForexSymbolsUsed, q \in Quotes}
CatchupBatchRows == {CatchupTick(t, s, q) : t \in Times, s \in ForexSymbolsUsed, q \in Quotes}

SeqsUpTo(S, n) == UNION {[1..k -> S] : k \in 0..n}

\* ------------------------------------------------------------------ storage writer
Writers == {"bitcoin", "forex", "catchup"}
TableOf(writer) == IF writer = "bitcoin" THEN "bitcoin_ticks" ELSE "forex_ticks"
BatchesOf(writer) ==
    IF writer = "bitcoin" THEN SeqsUpTo(BitcoinBatchRows, MaxBatch)
    ELSE IF writer = "forex" THEN SeqsUpTo(ForexBatchRows, MaxBatch)
    ELSE SeqsUpTo(CatchupBatchRows, MaxBatch)

\* INSERT INTO <table> (time, symbol, bid, ask, bid_size, ask_size[, source]):
\* the row a non-conflicting staging row becomes.  forex_ticks has a source
\* column, which the range ingester does not name and so leaves at its default.
InsertedRow(writer, r) ==
    IF writer = "forex"
    THEN [time |-> r.time, symbol |-> r.symbol, bid |-> r.bid, ask |-> r.ask,
          bid_size |-> r.bid_size, ask_size |-> r.ask_size, source |-> "default"]
    ELSE r

\* A mutation of DoUpdateSet: sizes accumulate instead of being overwritten.
DoUpdateSetSummed(writer, old, r) ==
    [old EXCEPT !.bid = r.bid, !.ask = r.ask,
                !.bid_size = old.bid_size + r.bid_size,
                !.ask_size = old.ask_size + r.ask_size]

\* ON CONFLICT (symbol, time) DO UPDATE SET bid = EXCLUDED.bid, ...
DoUpdateSet(writer, old, r) ==
    IF writer = "catchup"
    THEN [old EXCEPT !.bid = r.bid, !.ask = r.ask, !.bid_size = r.bid_size,
                     !.ask_size = r.ask_size, !.source = r.source]
    ELSE [old EXCEPT !.bid = r.bid, !.ask = r.ask, !.bid_size = r.bid_size,
                     !.ask_size = r.ask_size]

\* A mutation of UpsertRow: ON CONFLICT DO NOTHING, the stored row is kept.
UpsertRowDoNothing(writer, tbl, r) ==
    IF {o \in tbl : SameKey(o, r)} = {} THEN tbl \cup {InsertedRow(writer, r)} ELSE tbl

\* One proposed row of the INSERT ... ON CONFLICT statement.
UpsertRow(writer, tbl, r) ==
    LET olds == {o \in tbl : SameKey(o, r)}
    IN  IF olds = {}
        THEN tbl \cup {InsertedRow(writer, r)}
        ELSE (tbl \ olds) \cup {DoUpdateSet(writer, o, r) : o \in olds}

\* The merge statement over the staging rows from row i on.  It errors when
\* the database fails at row `fault`, and when a proposed row repeats the key
\* of an earlier proposed row of the same statement (PostgreSQL: ON CONFLICT
\* DO UPDATE cannot affect a row a second time).  tbl is the transaction's
\* working copy at the point the statement ended.
RECURSIVE MergeRows(_, _, _, _, _)
MergeRows(writer, tbl, batch, i, fault) ==
    IF i > Len(batch) THEN [tbl |-> tbl, ok |-> TRUE]
    ELSE IF fault = i \/ (\E j \in 1..(i - 1) : SameKey(batch[j], batch[i]))
         THEN [tbl |-> tbl, ok |-> FALSE]
         ELSE MergeRows(writer, UpsertRow(writer, tbl, batch[i]), batch, i + 1, fault)

\* Faults the database can raise inside one transaction: 0 none, -1 the
\* staging insert, 1..Len the merge at that row, Len+1 a statement after the
\* merge (drop of the staging table, cascade refresh) or the commit.
Faults(batch) == (-1)..(Len(batch) + 1)

\* Body of `with self.engine.begin() as conn:` up to its exit.
TransactionBody(writer, tbl, batch, fault) ==
    IF fault = -1 THEN [tbl |-> tbl, ok |-> FALSE]
    ELSE LET m == MergeRows(writer, tbl, batch, 1, fault)
         IN  IF m.ok /\ fault = Len(batch) + 1 THEN [tbl |-> m.tbl, ok |-> FALSE] ELSE m

\* A mutation of EngineBegin: statements autocommit, nothing is rolled back.
EngineBeginAutocommit(committed, body) == body.tbl

\* engine.begin(): commit on normal exit, rollback on an exception.
EngineBegin(committed, body) == IF body.ok THEN body.tbl ELSE committed

\* The staging-insert-then-merge transaction of a writer on its table:
\* the committed table afterwards and whether the transaction raised.
UpsertTransaction(writer, tbl, batch, fault) ==
    LET body == TransactionBody(writer, tbl, batch, fault)
    IN  [tbl |-> EngineBegin(tbl, body), raised |-> ~body.ok]

NoKey == [bid |-> 0, ask |-> 0, bid_size |-> 0, ask_size |-> 0]
BatchKeys(batch) == {Key(batch[i]) : i \in 1..Len(batch)}
BatchValue(batch, k) == Values(batch[CHOOSE i \in 1..Len(batch) : Key(batch[i]) = k])

\* save_to_database / the upsert of ingest_historical_data / the upsert of
\* catchup_gap, run on `batch` with the database raising `fault`.
WriteBatch(writer, batch, fault, again) ==
    LET tname == TableOf(writer)
        tbl == IF tname = "bitcoin_ticks" THEN bitcoin_ticks ELSE forex_ticks
        tx == UpsertTransaction(writer, tbl, batch, fault)
        outcome == IF batch = <<>> THEN "skipped"
                   ELSE IF tx.raised THEN "raised" ELSE "committed"
        newtbl == IF batch = <<>> THEN tbl ELSE tx.tbl
    IN  /\ w_seq < MaxWrites
        /\ w_seq' = w_seq + 1
        /\ bitcoin_ticks' = IF tname = "bitcoin_ticks" THEN newtbl ELSE bitcoin_ticks
        /\ forex_ticks' = IF tname = "forex_ticks" THEN newtbl ELSE forex_ticks
        /\ w_last' = [writer |-> writer, batch |-> batch, fault |-> fault, outcome |-> outcome]
        /\ w_again' = again
        /\ w_first' = IF again THEN w_last.outcome ELSE "none"
        /\ w_before' = <<bitcoin_ticks, forex_ticks>>
        /\ UNCHANGED <<fm, run, tasks, permits, refreshes, flog>>
        /\ lww' = IF outcome = "committed"
                  THEN [lww EXCEPT ![tname] =
                           [k \in DOMAIN lww[tname] |->
                               IF k \in BatchKeys(batch) THEN BatchValue(batch, k)
                               ELSE lww[tname][k]]]
                  ELSE lww

save_to_database ==
    \E batch \in BatchesOf("bitcoin") : \E fault \in Faults(batch) :
        WriteBatch("bitcoin", batch, fault, FALSE)

ingest_historical_data_upsert ==
    \E batch \in BatchesOf("forex") : \E fault \in Faults(batch) :
        WriteBatch("forex", batch, fault, FALSE)

catchup_gap_upsert ==
    \E batch \in BatchesOf("catchup") : \E fault \in Faults(batch) :
        WriteBatch("catchup", batch, fault, FALSE)

\* The caller retries the batch of the write just run.
RetrySameBatch ==
    /\ w_seq > 0
    /\ \E fault \in Faults(w_last.batch) :
           WriteBatch(w_last.writer, w_last.batch, fault, TRUE)

StoreInit ==
    /\ bitcoin_ticks = {}
    /\ forex_ticks = {}
    /\ w_seq = 0
    /\ w_last = [writer |-> "bitcoin", batch |-> <<>>, fault |-> 0, outcome |-> "none"]
    /\ w_again = FALSE
    /\ w_first = "none"
    /\ w_before = <<{}, {}>>
    /\ lww = [bitcoin_ticks |-> [k \in CryptoSymbolsUsed \X Times |-> NoKey],
              forex_ticks |-> [k \in ForexSymbolsUsed \X Times |-> NoKey]]
    /\ fm = FmNone
    /\ RunIdle

StoreNext ==
    \/ save_to_database
    \/ ingest_historical_data_upsert
    \/ catchup_gap_upsert
    \/ RetrySameBatch

Spec == StoreInit /\ [][StoreNext]_vars

\* ------------------------------------------------------------------ claims on the writer
LastTable == IF TableOf(w_last.writer) = "bitcoin_ticks" THEN bitcoin_ticks ELSE forex_ticks
LastTableBefore == IF TableOf(w_last.writer) = "bitcoin_ticks" THEN w_before[1] ELSE w_before[2]

\* C1: writing the same batch twice in succession leaves both tables exactly
\* as the first committed write left them: same keys, same values, no
\* duplicated row.
C1_IdempotentWrite ==
    (w_again /\ w_first = "committed") => <<bitcoin_ticks, forex_ticks>> = w_before

\* The batch was committed over rows it conflicts with, then committed again.
C1_Witness ==
    /\ w_again /\ w_first = "committed" /\ w_last.outcome = "committed"
    /\ w_seq = 3
    /\ \E r \in LastTable : \E i \in 1..Len(w_last.batch) : SameKey(r, w_last.batch[i])

\* C2: each table holds at most one row per (symbol, time), and the row's
\* bid, ask, bid_size and ask_size are those of the most recently committed
\* write that contained the key.
C2_LastWriteWins ==
    /\ \A r \in bitcoin_ticks :
          /\ Cardinality({o \in bitcoin_ticks : SameKey(o, r)}) = 1
          /\ Values(r) = lww["bitcoin_ticks"][Key(r)]
    /\ \A r \in forex_ticks :
          /\ Cardinality({o \in forex_ticks : SameKey(o, r)}) = 1
          /\ Values(r) = lww["forex_ticks"][Key(r)]

\* A committed write replaced the values of a row that another writer put there.
C2_Witness ==
    /\ w_last.outcome = "committed" /\ w_last.writer = "forex"
    /\ \E r \in LastTableBefore : \E i \in 1..Len(w_last.batch) :
          /\ SameKey(r, w_last.batch[i])
          /\ Values(r) # Values(w_last.batch[i])
          /\ r.source = "dukascopy"

HasRepeatedKey(batch) ==
    \E i, j \in 1..Len(batch) : i < j /\ SameKey(batch[i], batch[j])

\* C9: a write whose staging insert, merge or later statement fails leaves
\* both tables as they were before it and raises to its caller.
C9_AtomicWrite ==
    /\ w_last.outcome = "raised" => <<bitcoin_ticks, forex_ticks>> = w_before
    /\ (w_last.batch # <<>> /\ (w_last.fault # 0 \/ HasRepeatedKey(w_last.batch)))
           => w_last.outcome = "raised"

\* The merge failed after its first row had already changed the working copy.
C9_Witness ==
    /\ w_last.outcome = "raised" /\ w_last.fault = 2
    /\ UpsertRow(w_last.writer, LastTableBefore, w_last.batch[1]) # LastTableBefore

\* ------------------------------------------------------------------ gap detector
GapHours == 2
MaxSeed == 2
GapTimes == 0..(GapHours * UnitsPerHour - 1)
GapSymbols == {"BTCUSD", "ETHUSD"}

RECURSIVE SortedSeq(_)
\* ORDER BY ah.hour: the elements of a set of hours in ascending order.
SortedSeq(S) ==
    IF S = {} THEN <<>>
    ELSE LET m == CHOOSE x \in S : \A y \in S : x <= y
         IN  <<m>> \o SortedSeq(S \ {m})

\* generate_series(start, end, '1 hour'): start, start + 1h, ... while <= end.
GenerateSeries(start_date, end_date) ==
    IF start_date > end_date THEN {}
    ELSE {start_date + k * UnitsPerHour : k \in 0..((end_date - start_date) \div UnitsPerHour)}

\* CTE all_hours: date_trunc('hour', generate_series(...)).
AllHours(start_date, end_date) == {TruncHour(t) : t \in GenerateSeries(start_date, end_date)}

\* CTE existing_hours: the stored rows of the symbol with start <= time <= end,
\* grouped by date_trunc('hour', time).
ExistingHours(tbl, symbol, start_date, end_date) ==
    {TruncHour(r.time) :
        r \in {x \in tbl : x.symbol = symbol /\ x.time >= start_date /\ x.time <= end_date}}

\* all_hours LEFT JOIN existing_hours WHERE eh.hour IS NULL ORDER BY ah.hour.
find_missing_hours(tbl, symbol, start_date, end_date) ==
    SortedSeq(AllHours(start_date, end_date) \ ExistingHours(tbl, symbol, start_date, end_date))

SeedTables(rows, n) == {T \in SUBSET rows : Cardinality(T) <= n}

GapInit ==
    /\ bitcoin_ticks \in SeedTables({Tick(t, s, QuoteOf(1)) : t \in GapTimes, s \in GapSymbols}, MaxSeed)
    /\ forex_ticks = {}
    /\ WriteIdle
    /\ fm = FmNone
    /\ RunIdle

\* A caller runs the gap detector over a range of its choice.
FindMissingHoursCall ==
    \E symbol \in GapSymbols : \E start_date \in GapTimes : \E end_date \in GapTimes :
        /\ fm' = [called |-> TRUE, symbol |-> symbol, start_date |-> start_date,
                  end_date |-> end_date,
                  result |-> find_missing_hours(bitcoin_ticks, symbol, start_date, end_date)]
        /\ UNCHANGED <<storeVars, writeVars, runVars>>

GapNext == FindMissingHoursCall

GapSpec == GapInit /\ [][GapNext]_vars

\* The hourly buckets that meet [start, end] and hold no tick of the symbol.
EmptyBuckets(tbl, symbol, start_date, end_date) ==
    {h \in {TruncHour(t) : t \in start_date..end_date} :
        ~ \E r \in tbl : r.symbol = symbol /\ TruncHour(r.time) = h}

\* C6: for every symbol and range, aligned or not, find_missing_hours returns
\* exactly the buckets of the range that hold no tick of the symbol, each
\* once, ascending.
C6_GapCompleteness ==
    fm.called =>
        fm.result = SortedSeq(EmptyBuckets(bitcoin_ticks, fm.symbol, fm.start_date, fm.end_date))

\* ------------------------------------------------------------------ bi5 decoder
CryptoDivisor == 10
JpyDivisor == 1000
ForexDivisor == 100000
MaxRecs == 1

\* Prices are kept as integers in units of 1/ForexDivisor, the finest scale.
ScaledPrice(raw, divisor) == raw * (ForexDivisor \div divisor)

\* int(vol * 1000000): vol is given in tenths of a millionth; int() truncates
\* towards zero.
IntMillionths(vol) == IF vol >= 0 THEN vol \div 10 ELSE -((-vol) \div 10)

\* 'JPY' in symbol.upper(), over the symbols the model uses.
ContainsJPY(symbol) == symbol \in {"USDJPY", "EURJPY"}

\* chunk_size = struct.calcsize('>3I2f')
chunk_size == 20

\* One 20-byte record of the wire format: >3I2f.  A volume is a float32:
\* finite (ask_vol, bid_vol, in tenths of a millionth), or an infinity or a
\* NaN, which the bytes can equally spell (ask_cls, bid_cls).
FloatClasses == {"finite", "inf", "nan"}
WireRecord(off) == [time_offset |-> off, ask_raw |-> 2, bid_raw |-> 1, ask_vol |-> 15, bid_vol |-> 0,
                    ask_cls |-> "finite", bid_cls |-> "finite"]

\* Bodies of a 200 response: empty bytes, bytes that are no LZMA stream, and
\* LZMA streams of whole records.  An offset of UnitsPerHour or more lies
\* past the end of the hour: the format does not forbid it.
Offsets == 0..UnitsPerHour
\* records: the whole records of the decompressed payload; tail: the number
\* of bytes after them, fewer than a record.
NoneData == [bytes |-> "None", records |-> <<>>, tail |-> 0]
EmptyBody == [bytes |-> "empty", records |-> <<>>, tail |-> 0]
CorruptBody == [bytes |-> "corrupt", records |-> <<>>, tail |-> 0]
LzmaPayload(recs, tail) == [bytes |-> "lzma", records |-> recs, tail |-> tail]
LzmaBody(recs) == LzmaPayload(recs, 0)
Bodies ==
    {EmptyBody, CorruptBody}
        \cup {LzmaBody([i \in 1..Len(offs) |-> WireRecord(offs[i])]) :
                 offs \in SeqsUpTo(Offsets, MaxRecs)}

\* `if compressed_data:` / `if not compressed_data:` on bytes or None.
Truthy(data) == data.bytes \notin {"None", "empty"}

\* len(decompressed)
PayloadLen(data) == Len(data.records) * chunk_size + data.tail

\* A mutation of ChunkLoop: a last, short chunk is unpacked as well.
ChunkLoopNoBreak(i, n) == (n - i + chunk_size - 1) \div chunk_size

RECURSIVE ChunkLoop(_, _)
\* `for i in range(0, len(decompressed), chunk_size): if i + chunk_size >
\* len(decompressed): break`: the number of chunks unpacked from index i on.
ChunkLoop(i, n) ==
    IF i >= n THEN 0
    ELSE IF i + chunk_size > n THEN 0
    ELSE 1 + ChunkLoop(i + chunk_size, n)

\* The records struct.unpack is applied to; a short chunk unpacked as a
\* record raises struct.error.
Unpacked(data) ==
    [i \in 1..ChunkLoop(0, PayloadLen(data)) |->
        IF i <= Len(data.records) THEN data.records[i] ELSE [short |-> TRUE]]
UnpackRaises(data) == ChunkLoop(0, PayloadLen(data)) > Len(data.records)

\* int(vol * 1000000) raises OverflowError for an infinity and ValueError
\* for a NaN.
IntRaises(cls) == cls \in {"inf", "nan"}
\* `int(vol * 1000000) if vol > 0 else 0`: a NaN is not > 0.
GuardedIntRaises(cls) == cls = "inf"

\* tick_time = base_time + timedelta(milliseconds=time_offset)
CryptoTickTime(base_time, time_offset) == base_time + time_offset

\* DukascopyBitcoinIngester.parse_bi5_data
CryptoParseBi5(compressed_data, symbol, base_time) ==
    IF ~Truthy(compressed_data) THEN <<>>
    ELSE IF compressed_data.bytes # "lzma" THEN <<>>
    ELSE IF UnpackRaises(compressed_data) THEN <<>>
    ELSE IF \E i \in 1..Len(compressed_data.records) :
               \/ GuardedIntRaises(compressed_data.records[i].ask_cls)
               \/ GuardedIntRaises(compressed_data.records[i].bid_cls)
    THEN <<>>
    ELSE [i \in 1..Len(Unpacked(compressed_data)) |->
            LET rec == Unpacked(compressed_data)[i]
            IN  [time |-> CryptoTickTime(base_time, rec.time_offset),
                 symbol |-> symbol,
                 bid |-> ScaledPrice(rec.bid_raw, CryptoDivisor),
                 ask |-> ScaledPrice(rec.ask_raw, CryptoDivisor),
                 bid_size |-> IF rec.bid_cls = "finite" /\ rec.bid_vol > 0
                              THEN IntMillionths(rec.bid_vol) ELSE 0,
                 ask_size |-> IF rec.ask_cls = "finite" /\ rec.ask_vol > 0
                              THEN IntMillionths(rec.ask_vol) ELSE 0]]

\* DukascopyIngester.parse_bi5_data
ForexParseBi5(compressed_data, symbol, base_time) ==
    IF ~Truthy(compressed_data) THEN <<>>
    ELSE IF compressed_data.bytes # "lzma" THEN <<>>
    ELSE IF UnpackRaises(compressed_data) THEN <<>>
    ELSE IF \E i \in 1..Len(compressed_data.records) :
               \/ IntRaises(compressed_data.records[i].ask_cls)
               \/ IntRaises(compressed_data.records[i].bid_cls)
    THEN <<>>
    ELSE [i \in 1..Len(Unpacked(compressed_data)) |->
            LET rec == Unpacked(compressed_data)[i]
                divisor == IF ContainsJPY(symbol) THEN JpyDivisor ELSE ForexDivisor
            IN  [time |-> base_time + rec.time_offset,
                 symbol |-> symbol,
                 ask |-> ScaledPrice(rec.ask_raw, divisor),
                 bid |-> ScaledPrice(rec.bid_raw, divisor),
                 ask_size |-> IntMillionths(rec.ask_vol),
                 bid_size |-> IntMillionths(rec.bid_vol)]]

\* CatchupIngester.parse_bi5_data
CatchupParseBi5(compressed_data, symbol, base_time) ==
    IF ~Truthy(compressed_data) THEN <<>>
    ELSE IF compressed_data.bytes # "lzma" THEN <<>>
    ELSE IF UnpackRaises(compressed_data) THEN <<>>
    ELSE IF \E i \in 1..Len(compressed_data.records) :
               \/ IntRaises(compressed_data.records[i].ask_cls)
               \/ IntRaises(compressed_data.records[i].bid_cls)
    THEN <<>>
    ELSE [i \in 1..Len(Unpacked(compressed_data)) |->
            LET rec == Unpacked(compressed_data)[i]
                divisor == IF ContainsJPY(symbol) THEN JpyDivisor ELSE ForexDivisor
            IN  [time |-> base_time + rec.time_offset,
                 symbol |-> symbol,
                 ask |-> ScaledPrice(rec.ask_raw, divisor),
                 bid |-> ScaledPrice(rec.bid_raw, divisor),
                 ask_size |-> IntMillionths(rec.ask_vol),
                 bid_size |-> IntMillionths(rec.bid_vol),
                 source |-> "dukascopy"]]

\* ------------------------------------------------------------------ hourly fetcher
SemaphorePermits == 25
MaxAttempts == 3

\* What the upstream does with one GET: not found, a client error (timeout,
\* non-2xx status, connection error), an exception of another class, or a
\* 200 with a body.
Responses ==
    {[kind |-> "404"], [kind |-> "error"], [kind |-> "crash"]}
        \cup {[kind |-> "ok", body |-> b] : b \in Bodies}

\* download_bi5_file, all three variants: None for a 404 and for a caught
\* client error, the body otherwise; an exception of another class passes.
download_bi5_file(resp) ==
    IF resp.kind = "404" THEN [raised |-> FALSE, data |-> NoneData]
    ELSE IF resp.kind = "error" THEN [raised |-> FALSE, data |-> NoneData]
    ELSE IF resp.kind = "crash" THEN [raised |-> TRUE, data |-> NoneData]
    ELSE [raised |-> FALSE, data |-> resp.body]

Get(hour, resp) == [ev |-> "GET", hour |-> hour, kind |-> resp.kind,
                    empty |-> (resp.kind = "ok" /\ resp.body = EmptyBody)]
Sleep(hour, secs) == [ev |-> "sleep", hour |-> hour, secs |-> secs]

RECURSIVE Pow2(_)
Pow2(n) == IF n = 0 THEN 1 ELSE 2 * Pow2(n - 1)

\* asyncio.sleep(2 ** attempt)
BackoffSeconds(attempt) == Pow2(attempt)

\* kinds: the kinds of answer the upstream has given the coroutine so far.
QueuedTask == [pc |-> "queued", attempt |-> 0, result |-> <<>>, kinds |-> {}]

\* A mutation of TaskAcquire: the coroutine enters without taking a permit.
TaskAcquireNoPermit(h) ==
    /\ h \in DOMAIN tasks
    /\ tasks[h].pc = "queued"
    /\ permits' = permits
    /\ tasks' = [tasks EXCEPT ![h].pc = "attempt"]

\* download_hour_with_semaphore: `async with semaphore:` admits the coroutine.
TaskAcquire(h) ==
    /\ h \in DOMAIN tasks
    /\ tasks[h].pc = "queued"
    /\ permits > 0
    /\ permits' = permits - 1
    /\ tasks' = [tasks EXCEPT ![h].pc = "attempt"]

\* A mutation of TaskAttempt: an exception leaves the coroutine without
\* releasing its permit.
TaskAttemptLeakOnRaise(h, resp, symbol, base_time, log) ==
    LET t == tasks[h]
        d == download_bi5_file(resp)
    IN  /\ h \in DOMAIN tasks
        /\ t.pc = "attempt"
        /\ flog' = flog
        /\ IF d.raised
           THEN /\ tasks' = [tasks EXCEPT ![h].pc = "raised", ![h].kinds = @ \cup {resp.kind}]
                /\ permits' = permits
           ELSE IF Truthy(d.data)
           THEN /\ tasks' = [tasks EXCEPT ![h].pc = "returned", ![h].kinds = @ \cup {resp.kind},
                                          ![h].result = CryptoParseBi5(d.data, symbol, base_time)]
                /\ permits' = permits + 1
           ELSE IF t.attempt < MaxAttempts - 1
           THEN /\ tasks' = [tasks EXCEPT ![h].pc = "backoff", ![h].kinds = @ \cup {resp.kind}]
                /\ permits' = permits
           ELSE /\ tasks' = [tasks EXCEPT ![h].pc = "returned", ![h].kinds = @ \cup {resp.kind},
                                          ![h].result = <<>>]
                /\ permits' = permits + 1

\* download_hour_with_semaphore: one pass of `for attempt in range(3)` up to
\* its next suspension: the download, then return the parsed ticks, or start
\* the backoff sleep, or fall out of the loop and return [].
TaskAttempt(h, resp, symbol, base_time, log) ==
    LET t == tasks[h]
        d == download_bi5_file(resp)
    IN  /\ h \in DOMAIN tasks
        /\ t.pc = "attempt"
        /\ IF d.raised
           THEN /\ tasks' = [tasks EXCEPT ![h].pc = "raised", ![h].kinds = @ \cup {resp.kind}]
                /\ permits' = permits + 1
                /\ flog' = IF log THEN Append(flog, Get(h, resp)) ELSE flog
           ELSE IF Truthy(d.data)
           THEN /\ tasks' = [tasks EXCEPT ![h].pc = "returned", ![h].kinds = @ \cup {resp.kind},
                                          ![h].result = CryptoParseBi5(d.data, symbol, base_time)]
                /\ permits' = permits + 1
                /\ flog' = IF log THEN Append(flog, Get(h, resp)) ELSE flog
           ELSE IF t.attempt < MaxAttempts - 1
           THEN /\ tasks' = [tasks EXCEPT ![h].pc = "backoff", ![h].kinds = @ \cup {resp.kind}]
                /\ permits' = permits
                /\ flog' = IF log
                           THEN flog \o <<Get(h, resp), Sleep(h, BackoffSeconds(t.attempt))>>
                           ELSE flog
           ELSE /\ tasks' = [tasks EXCEPT ![h].pc = "returned", ![h].kinds = @ \cup {resp.kind},
                                          ![h].result = <<>>]
                /\ permits' = permits + 1
                /\ flog' = IF log THEN Append(flog, Get(h, resp)) ELSE flog

\* download_hour_with_semaphore: the backoff sleep ends, the next attempt begins.
TaskSleepDone(h) ==
    /\ h \in DOMAIN tasks
    /\ tasks[h].pc = "backoff"
    /\ tasks' = [tasks EXCEPT ![h].pc = "attempt", ![h].attempt = @ + 1]
    /\ UNCHANGED permits

TaskFinished(t) == t.pc \in {"returned", "raised"}

\* ------------------------------------------------------------------ one hourly fetch on each path
HourStart(date, hour) == (date * HoursPerDay + hour) * UnitsPerHour
Hours == 0..(HoursPerDay - 1)

\* ingest_historical_data, body of `for hour in range(24)` after the fixed
\* 0.1 s pause: one download, parsed if truthy; `except Exception` skips the hour.
ForexHourBody(resp, symbol, hour_base) ==
    LET d == download_bi5_file(resp)
    IN  IF d.raised THEN <<>>
        ELSE IF Truthy(d.data) THEN ForexParseBi5(d.data, symbol, hour_base)
        ELSE <<>>

\* [tick for tick in ticks if from_time <= tick['time'] <= to_time]
RECURSIVE FilterWindow(_, _, _)
FilterWindow(ticks, from_time, to_time) ==
    IF ticks = <<>> THEN <<>>
    ELSE LET rest == FilterWindow(Tail(ticks), from_time, to_time)
         IN  IF from_time <= Head(ticks).time /\ Head(ticks).time <= to_time
             THEN <<Head(ticks)>> \o rest ELSE rest

\* catchup_gap, body of `while current_hour <= to_time`: one download, parsed
\* if truthy and filtered to the window; `except Exception` logs and moves on.
CatchupHourBody(resp, symbol, current_hour, from_time, to_time) ==
    LET d == download_bi5_file(resp)
    IN  IF d.raised THEN <<>>
        ELSE IF Truthy(d.data)
             THEN FilterWindow(CatchupParseBi5(d.data, symbol, current_hour), from_time, to_time)
             ELSE <<>>

FetchInit ==
    /\ bitcoin_ticks = {}
    /\ forex_ticks = {}
    /\ WriteIdle
    /\ fm = FmNone
    /\ RunIdle

\* A run reaches the fetch of one hour, on the path of its ingester.
BeginHourFetch ==
    /\ run = RunNone
    /\ \E path \in {"async", "range", "catchup"} : \E hour \in Hours :
          /\ run' = [pc |-> "hour", kind |-> "hour", path |-> path, hour |-> hour,
                     symbol |-> IF path = "async" THEN "BTCUSD" ELSE "EURUSD",
                     ticks |-> <<>>]
          /\ tasks' = IF path = "async" THEN (hour :> QueuedTask) ELSE <<>>
          /\ permits' = IF path = "async" THEN SemaphorePermits ELSE 0
    /\ UNCHANGED <<storeVars, writeVars, fm, refreshes, flog>>

FetchAcquire ==
    /\ run.pc = "hour" /\ run.path = "async"
    /\ TaskAcquire(run.hour)
    /\ UNCHANGED <<storeVars, writeVars, fm, run, refreshes, flog>>

FetchAttempt ==
    /\ run.pc = "hour" /\ run.path = "async"
    /\ \E resp \in Responses :
          TaskAttempt(run.hour, resp, run.symbol, HourStart(0, run.hour), TRUE)
    /\ UNCHANGED <<storeVars, writeVars, fm, run, refreshes>>

FetchSleepDone ==
    /\ run.pc = "hour" /\ run.path = "async"
    /\ TaskSleepDone(run.hour)
    /\ UNCHANGED <<storeVars, writeVars, fm, run, refreshes, flog>>

\* The awaiting caller takes the finished coroutine's result.
FetchAwaited ==
    /\ run.pc = "hour" /\ run.path = "async"
    /\ TaskFinished(tasks[run.hour])
    /\ run' = [run EXCEPT !.pc = "hour_done", !.ticks = tasks[run.hour].result]
    /\ UNCHANGED <<storeVars, writeVars, fm, tasks, permits, refreshes, flog>>

\* The hour of the sequential range ingester, from request to skip or ticks.
RangeHourFetch ==
    /\ run.pc = "hour" /\ run.path = "range"
    /\ \E resp \in Responses :
          /\ run' = [run EXCEPT !.pc = "hour_done",
                                !.ticks = ForexHourBody(resp, run.symbol, HourStart(0, run.hour))]
          /\ flog' = Append(flog, Get(run.hour, resp))
    /\ UNCHANGED <<storeVars, writeVars, fm, tasks, permits, refreshes>>

\* The hour of catchup_gap, from request to skip or ticks; the window is the hour.
CatchupHourFetch ==
    /\ run.pc = "hour" /\ run.path = "catchup"
    /\ \E resp \in Responses :
          /\ run' = [run EXCEPT !.pc = "hour_done",
                                !.ticks = CatchupHourBody(resp, run.symbol, HourStart(0, run.hour),
                                              HourStart(0, run.hour),
                                              HourStart(0, run.hour) + UnitsPerHour - 1)]
          /\ flog' = Append(flog, Get(run.hour, resp))
    /\ UNCHANGED <<storeVars, writeVars, fm, tasks, permits, refreshes>>

FetchNext ==
    \/ BeginHourFetch
    \/ FetchAcquire
    \/ FetchAttempt
    \/ FetchSleepDone
    \/ FetchAwaited
    \/ RangeHourFetch
    \/ CatchupHourFetch

FetchSpec == FetchInit /\ [][FetchNext]_vars

Gets == {i \in 1..Len(flog) : flog[i].ev = "GET"}
Sleeps == {i \in 1..Len(flog) : flog[i].ev = "sleep"}

\* C3: a 'not found' answer ends the fetch of the hour: no request and no
\* backoff wait follows it, and the hour yields an empty tick list.
C3_AbsenceNotRetried ==
    \A i \in Gets :
        flog[i].kind = "404" =>
            /\ i = Len(flog)
            /\ (run.pc = "hour_done" => run.ticks = <<>>)

\* C4: on the retrying path, an hour whose every download fails with a
\* non-404 error is requested exactly 3 times with waits of 1 s and 2 s in
\* between and none after the third, and yields no tick; and a download that
\* succeeds is the last request of the hour.
C4_RetryWithCap ==
    (run.pc \in {"hour", "hour_done"} /\ run.path = "async") =>
        /\ (run.pc = "hour_done" /\ \A i \in Gets : flog[i].kind = "error") =>
              /\ Len(flog) = 5
              /\ Gets = {1, 3, 5}
              /\ flog[2].secs = 1 /\ flog[4].secs = 2
              /\ run.ticks = <<>>
        /\ \A i \in Gets : flog[i].kind = "ok" => i = Len(flog)

\* C5: on the sequential paths (range ingester, catchup_gap) an hour whose
\* every download fails with a non-404 error has been requested 3 times when
\* it is skipped.
C5_RetryOnEveryPath ==
    (run.pc = "hour_done" /\ run.path \in {"range", "catchup"}
        /\ \A i \in Gets : flog[i].kind = "error")
        => Cardinality(Gets) = MaxAttempts

\* ------------------------------------------------------------------ catch-up reconciler (fill_gaps)
MaxDays == 2
UnitsPerDay == HoursPerDay * UnitsPerHour
HorizonTimes == 0..(MaxDays * UnitsPerDay - 1)
DayOf(t) == t \div UnitsPerDay
HourOfDay(t) == (t \div UnitsPerHour) % HoursPerDay
\* row[0].replace(hour=0, minute=0, second=0, microsecond=0)
DayStart(t) == DayOf(t) * UnitsPerDay
\* row[1].replace(hour=23, minute=59, second=59, microsecond=999999)
DayEnd(t) == DayOf(t) * UnitsPerDay + UnitsPerDay - 1

SymbolTimes(tbl, symbol) == {r.time : r \in {x \in tbl : x.symbol = symbol}}
MinTime(tbl, symbol) == CHOOSE t \in SymbolTimes(tbl, symbol) : \A u \in SymbolTimes(tbl, symbol) : t <= u
MaxTimeOf(tbl, symbol) == CHOOSE t \in SymbolTimes(tbl, symbol) : \A u \in SymbolTimes(tbl, symbol) : t >= u

\* A mutation of SelectHours: every hour of the date is fetched.
SelectHoursWholeDay(missing_hours, date) == [i \in 1..HoursPerDay |-> i - 1]

RECURSIVE SelectHours(_, _)
\* missing_by_date[date]: the hours of day of the missing buckets of one date,
\* in the order find_missing_hours returned them.
SelectHours(missing_hours, date) ==
    IF missing_hours = <<>> THEN <<>>
    ELSE LET rest == SelectHours(Tail(missing_hours), date)
         IN  IF DayOf(Head(missing_hours)) = date
             THEN <<HourOfDay(Head(missing_hours))>> \o rest ELSE rest

\* A mutation of MissingDates: only the first date with a missing bucket is kept.
MissingDatesFirstOnly(missing_hours) == <<DayOf(missing_hours[1])>>

\* sorted(missing_by_date.items()): the dates with a missing bucket, ascending.
MissingDates(missing_hours) ==
    SortedSeq({DayOf(missing_hours[i]) : i \in 1..Len(missing_hours)})

\* The ticks of an hour's result that lie inside that hour.
InsideHour(ticks, hour_start) ==
    {i \in 1..Len(ticks) : TruncHour(ticks[i].time) = hour_start}

FillInit ==
    /\ bitcoin_ticks \in
          SeedTables({Tick(t, "BTCUSD", QuoteOf(1)) : t \in HorizonTimes}
                         \cup {Tick(0, "ETHUSD", QuoteOf(1))}, MaxSeed)
    /\ forex_ticks = {}
    /\ WriteIdle
    /\ fm = FmNone
    /\ RunIdle

\* fill_gaps_async up to its first await: the stored span rounded out to
\* whole days, the missing buckets, their grouping by date, the semaphore.
FillStartWith(symbol) ==
    /\ run = RunNone
    /\    IF SymbolTimes(bitcoin_ticks, symbol) = {}
          THEN /\ run' = [pc |-> "done", kind |-> "fill", symbol |-> symbol, total_ticks |-> 0,
                          summary |-> <<>>, outcome |-> "no_data"]
               /\ UNCHANGED <<tasks, permits>>
          ELSE LET start_date == DayStart(MinTime(bitcoin_ticks, symbol))
                   end_date == DayEnd(MaxTimeOf(bitcoin_ticks, symbol))
                   missing_hours == find_missing_hours(bitcoin_ticks, symbol, start_date, end_date)
                   dates == MissingDates(missing_hours)
               IN  IF missing_hours = <<>>
                   THEN /\ run' = [pc |-> "done", kind |-> "fill", symbol |-> symbol,
                                   total_ticks |-> 0, summary |-> <<>>,
                                   outcome |-> "no_missing"]
                        /\ UNCHANGED <<tasks, permits>>
                   ELSE /\ run' = [pc |-> "await_hour", kind |-> "fill", symbol |-> symbol,
                                   start_date |-> start_date, end_date |-> end_date,
                                   missing_hours |-> missing_hours,
                                   dates |-> Tail(dates), date |-> Head(dates),
                                   hours |-> SelectHours(missing_hours, Head(dates)),
                                   day_ticks |-> <<>>, total_ticks |-> 0,
                                   all_served |-> TRUE, summary |-> <<>>,
                                   present |-> {TruncHour(t) : t \in SymbolTimes(bitcoin_ticks, symbol)},
                                   fetched |-> <<HourStart(Head(dates),
                                                           Head(SelectHours(missing_hours, Head(dates))))>>,
                                   gets |-> <<>>, absent |-> {},
                                   outcome |-> "running"]
                        /\ tasks' = (Head(SelectHours(missing_hours, Head(dates))) :> QueuedTask)
                        /\ permits' = SemaphorePermits
    /\ UNCHANGED <<storeVars, writeVars, fm, refreshes, flog>>

\* fill_gaps is called for a symbol.
FillStart == \E symbol \in {"BTCUSD"} : FillStartWith(symbol)

FillAcquire ==
    /\ run.pc = "await_hour" /\ run.kind = "fill"
    /\ TaskAcquire(Head(run.hours))
    /\ UNCHANGED <<storeVars, writeVars, fm, run, refreshes, flog>>

FillAttempt ==
    /\ run.pc = "await_hour" /\ run.kind = "fill"
    /\ \E resp \in Responses :
          TaskAttempt(Head(run.hours), resp, run.symbol,
                      HourStart(run.date, Head(run.hours)), FALSE)
    /\ UNCHANGED <<storeVars, writeVars, fm, run, refreshes>>

FillSleepDone ==
    /\ run.pc = "await_hour" /\ run.kind = "fill"
    /\ TaskSleepDone(Head(run.hours))
    /\ UNCHANGED <<storeVars, writeVars, fm, run, refreshes, flog>>

\* `ticks = await task` resumes: the ticks join day_ticks; an exception of the
\* coroutine passes through fill_gaps_async.  The next hour of the date is
\* awaited, or the date is ready to be saved.
FillHourAwaited ==
    /\ run.pc = "await_hour" /\ run.kind = "fill"
    /\ TaskFinished(tasks[Head(run.hours)])
    /\ LET t == tasks[Head(run.hours)]
           bucket == HourStart(run.date, Head(run.hours))
           served == InsideHour(t.result, bucket) # {}
           absent == IF t.kinds = {"404"} THEN run.absent \cup {bucket} ELSE run.absent
       IN  IF t.pc = "raised"
           THEN /\ run' = [run EXCEPT !.pc = "raised", !.outcome = "fetch_raised",
                                      !.gets = Append(@, t.attempt + 1)]
                /\ tasks' = <<>>
           ELSE IF Tail(run.hours) # <<>>
           THEN /\ run' = [run EXCEPT !.hours = Tail(@), !.day_ticks = @ \o t.result,
                                      !.all_served = @ /\ served,
                                      !.gets = Append(@, t.attempt + 1), !.absent = absent,
                                      !.fetched = Append(@, HourStart(run.date, Head(Tail(run.hours))))]
                /\ tasks' = (Head(Tail(run.hours)) :> QueuedTask)
           ELSE /\ run' = [run EXCEPT !.pc = "save", !.hours = <<>>,
                                      !.day_ticks = @ \o t.result,
                                      !.all_served = @ /\ served,
                                      !.gets = Append(@, t.attempt + 1), !.absent = absent]
                /\ tasks' = <<>>
    /\ UNCHANGED <<storeVars, writeVars, fm, permits, refreshes, flog>>

\* `if day_ticks: save_to_database(df)`, then the next date or the end of the loop.
FillSaveDay ==
    /\ run.pc = "save" /\ run.kind = "fill"
    /\ \E fault \in Faults(run.day_ticks) :
          LET tx == IF run.day_ticks = <<>>
                    THEN [tbl |-> bitcoin_ticks, raised |-> FALSE]
                    ELSE UpsertTransaction("bitcoin", bitcoin_ticks, run.day_ticks, fault)
          IN  /\ bitcoin_ticks' = tx.tbl
              /\ IF tx.raised
                 THEN /\ run' = [run EXCEPT !.pc = "raised", !.outcome = "save_raised"]
                      /\ tasks' = <<>>
                 ELSE IF run.dates # <<>>
                 THEN /\ run' = [run EXCEPT !.pc = "await_hour",
                                            !.total_ticks = @ + Len(run.day_ticks),
                                            !.day_ticks = <<>>,
                                            !.date = Head(run.dates), !.dates = Tail(@),
                                            !.hours = SelectHours(run.missing_hours, Head(run.dates)),
                                            !.fetched = Append(@,
                                                HourStart(Head(run.dates),
                                                          Head(SelectHours(run.missing_hours,
                                                                           Head(run.dates)))))]
                      /\ tasks' = (Head(SelectHours(run.missing_hours, Head(run.dates))) :> QueuedTask)
                 ELSE /\ run' = [run EXCEPT !.pc = "verify",
                                            !.total_ticks = @ + Len(run.day_ticks),
                                            !.day_ticks = <<>>]
                      /\ tasks' = <<>>
    /\ UNCHANGED <<forex_ticks, writeVars, fm, permits, refreshes, flog>>

\* A mutation of FillVerify: while buckets remain missing the pass over them
\* is made again.
FillVerifyUntilClosed ==
    /\ run.pc = "verify" /\ run.kind = "fill"
    /\ LET remaining == find_missing_hours(bitcoin_ticks, run.symbol, run.start_date, run.end_date)
           dates == MissingDates(remaining)
       IN  /\ fm' = [called |-> TRUE, symbol |-> run.symbol, start_date |-> run.start_date,
                     end_date |-> run.end_date, result |-> remaining]
           /\ IF remaining = <<>>
              THEN /\ run' = [run EXCEPT !.pc = "done", !.outcome = "all_filled",
                                         !.summary = <<[ticks_filled |-> run.total_ticks]>>]
                   /\ tasks' = tasks
              ELSE /\ run' = [run EXCEPT !.pc = "await_hour",
                                         !.dates = Tail(dates), !.date = Head(dates),
                                         !.hours = SelectHours(remaining, Head(dates)),
                                         !.fetched = Append(@, HourStart(Head(dates),
                                                         Head(SelectHours(remaining, Head(dates)))))]
                   /\ tasks' = (Head(SelectHours(remaining, Head(dates))) :> QueuedTask)
    /\ UNCHANGED <<storeVars, writeVars, permits, refreshes, flog>>

\* The end of fill_gaps_async: "Filled {total_ticks} ticks total" is logged,
\* then "Verify the gaps were filled": the second find_missing_hours over the
\* same span, a warning if buckets remain, and fill_gaps_async returns.
FillVerify ==
    /\ run.pc = "verify" /\ run.kind = "fill"
    /\ fm' = [called |-> TRUE, symbol |-> run.symbol, start_date |-> run.start_date,
              end_date |-> run.end_date,
              result |-> find_missing_hours(bitcoin_ticks, run.symbol, run.start_date, run.end_date)]
    /\ run' = [run EXCEPT !.pc = "done",
                          !.summary = <<[ticks_filled |-> run.total_ticks]>>,
                          !.outcome = IF fm'.result = <<>> THEN "all_filled" ELSE "still_missing"]
    /\ UNCHANGED <<storeVars, writeVars, tasks, permits, refreshes, flog>>

FillNext ==
    \/ FillStart
    \/ FillAcquire
    \/ FillAttempt
    \/ FillSleepDone
    \/ FillHourAwaited
    \/ FillSaveDay
    \/ FillVerify

FillSpec == FillInit /\ [][FillNext]_vars

\* C7: when every hourly fetch of a fill_gaps run returned at least one tick
\* inside its hour and every write committed, the gap detector finds no
\* missing bucket over the same span once the run has finished.
C7_CatchupClosesGaps ==
    (run.pc = "done" /\ run.kind = "fill" /\ run.outcome \in {"all_filled", "still_missing"}
        /\ run.all_served)
        => /\ fm.result = <<>>
           /\ EmptyBuckets(bitcoin_ticks, run.symbol, run.start_date, run.end_date) = {}

\* A run over two dates with missing buckets on both closed them all.
C7_Witness ==
    /\ run.pc = "done" /\ run.kind = "fill" /\ run.outcome = "all_filled"
    /\ run.all_served
    /\ Len(run.missing_hours) >= 2
    /\ \E i, j \in 1..Len(run.missing_hours) :
          DayOf(run.missing_hours[i]) # DayOf(run.missing_hours[j])

\* C10: a run that ends having committed at least one tick for a symbol has
\* issued an aggregate refresh for the symbol over the written span extended
\* by one period at its end.
C10_RefreshFollowsWrite ==
    (run.pc = "done" /\ run.total_ticks > 0) =>
        \E i \in 1..Len(refreshes) :
            /\ refreshes[i].symbol = run.symbol
            /\ refreshes[i].start_time <= DayStart(run.start_date)
            /\ refreshes[i].end_time >= DayEnd(run.end_date) + 1

\* ------------------------------------------------------------------ ranged backfill (ingest_date_range_async)
batch_size == 7
crypto_symbols == {"BTCUSD", "ETHUSD", "LTCUSD", "XRPUSD", "BCHUSD", "BTCEUR", "ETHEUR"}
Timeframes == {"5m", "15m", "1h", "4h", "12h"}
Midnights == {d * UnitsPerDay : d \in 0..(MaxDays - 1)}
Min(a, b) == IF a <= b THEN a ELSE b

\* The dates current_date, current_date + 1 day, ... up to batch_end.
DatesFrom(current_date, batch_end) ==
    [i \in 1..(IF current_date > batch_end THEN 0
               ELSE (batch_end - current_date) \div UnitsPerDay + 1) |->
        current_date + (i - 1) * UnitsPerDay]

RECURSIVE GatherResultsUntilException(_, _)
\* A mutation of GatherResults: the first coroutine that raised ends the
\* collection of the day's results.
GatherResultsUntilException(ts, hour) ==
    IF hour >= HoursPerDay THEN <<>>
    ELSE IF ts[hour].pc # "returned" THEN <<>>
    ELSE ts[hour].result \o GatherResultsUntilException(ts, hour + 1)

RECURSIVE GatherResults(_, _)
\* download_day_data_async after the gather: the truthy results, in hour
\* order; a coroutine that raised is logged and adds nothing.
GatherResults(ts, hour) ==
    IF hour >= HoursPerDay THEN <<>>
    ELSE (IF ts[hour].pc = "returned" THEN ts[hour].result ELSE <<>>)
             \o GatherResults(ts, hour + 1)

\* refresh_candles: one transaction refreshing every timeframe over
\* [start_date, end_date + 1 day]; a failure is logged and swallowed.
refresh_candles(calls, symbol, start_date, end_date, ok) ==
    IF ok
    THEN Append(calls, [symbol |-> symbol, timeframes |-> Timeframes,
                        start_time |-> start_date, end_time |-> end_date + UnitsPerDay])
    ELSE calls

RangeInit ==
    /\ bitcoin_ticks = {}
    /\ forex_ticks = {}
    /\ WriteIdle
    /\ fm = FmNone
    /\ RunIdle

\* ingest_date_range_async up to the batching loop.
RangeStartWith(symbol, start_date, end_date) ==
    /\ run = RunNone
    /\    IF symbol \notin crypto_symbols
          THEN /\ run' = [pc |-> "done", kind |-> "range", symbol |-> symbol,
                          start_date |-> start_date, end_date |-> end_date,
                          total_ticks |-> 0, outcome |-> "unsupported"]
               /\ permits' = permits
          ELSE /\ run' = [pc |-> "while", kind |-> "range", symbol |-> symbol,
                          start_date |-> start_date, end_date |-> end_date,
                          current_date |-> start_date, batch_tasks |-> <<>>,
                          day_ticks |-> <<>>, total_ticks |-> 0,
                          absent |-> {}, served |-> {}, failed |-> {},
                          contributed |-> {}, keys |-> {}, fetched |-> {},
                          refresh_raised |-> FALSE, outcome |-> "running"]
               /\ permits' = SemaphorePermits
    /\ UNCHANGED <<storeVars, writeVars, fm, tasks, refreshes, flog>>

\* ingest_date_range is called for a symbol and a range of dates.
RangeStart ==
    \E symbol \in {"BTCUSD", "EURUSD"} : \E start_date \in Midnights : \E end_date \in Midnights :
        RangeStartWith(symbol, start_date, end_date)

\* A mutation of BatchEnd: the whole rest of the range is one batch.
BatchEndWholeRange(current_date, end_date) == end_date

\* batch_end = min(current_date + timedelta(days=batch_size - 1), end_date)
BatchEnd(current_date, end_date) == Min(current_date + (batch_size - 1) * UnitsPerDay, end_date)

\* `while current_date <= end_date`: the next batch of at most batch_size
\* days, whose first day is awaited; or the end of the loop.
RangeBatch ==
    /\ run.pc = "while" /\ run.kind = "range"
    /\ IF run.current_date <= run.end_date
       THEN LET batch_end == BatchEnd(run.current_date, run.end_date)
            IN  /\ run' = [run EXCEPT !.pc = "await_day",
                                      !.batch_tasks = DatesFrom(run.current_date, batch_end),
                                      !.current_date = batch_end + UnitsPerDay]
                /\ tasks' = [h \in Hours |-> QueuedTask]
       ELSE /\ run' = [run EXCEPT !.pc = "summary"]
            /\ tasks' = <<>>
    /\ UNCHANGED <<storeVars, writeVars, fm, permits, refreshes, flog>>

RangeAcquire ==
    /\ run.pc = "await_day" /\ run.kind = "range"
    /\ \E h \in Hours : TaskAcquire(h)
    /\ UNCHANGED <<storeVars, writeVars, fm, run, refreshes, flog>>

RangeAttempt ==
    /\ run.pc = "await_day" /\ run.kind = "range"
    /\ \E h \in Hours : \E resp \in Responses :
          TaskAttempt(h, resp, run.symbol,
                      HourStart(DayOf(Head(run.batch_tasks)), h), FALSE)
    /\ UNCHANGED <<storeVars, writeVars, fm, run, refreshes>>

RangeSleepDone ==
    /\ run.pc = "await_day" /\ run.kind = "range"
    /\ \E h \in Hours : TaskSleepDone(h)
    /\ UNCHANGED <<storeVars, writeVars, fm, run, refreshes, flog>>

\* A mutation of GatherDone: the gather returns at the first completion.
GatherDoneFirstCompleted(ts) == \E h \in Hours : TaskFinished(ts[h])

\* asyncio.gather(*tasks, return_exceptions=True) returns once every hourly
\* coroutine has returned or raised.
GatherDone(ts) == \A h \in Hours : TaskFinished(ts[h])

\* Entries of the run's log: a day's gather returned (with the hours that
\* had resolved by then), and save_to_database was called for a day.
Gathered(day, ts) ==
    [ev |-> "gathered", day |-> day, resolved |-> {h \in Hours : TaskFinished(ts[h])}]
Written(day, raised) == [ev |-> "write", day |-> day, raised |-> raised]

\* The fetch of the hour failed on every attempt (a client error each time)
\* or raised an exception of another class.
FetchFailed(t) == t.pc = "raised" \/ (t.pc = "returned" /\ t.kinds = {"error"})

\* The hours whose result download_day_data_async extends all_ticks with.
ContributingHours(ts) == {h \in Hours : ts[h].pc = "returned" /\ ts[h].result # <<>>}

\* `day_ticks = await task` resumes once every hourly coroutine of the day
\* has finished.
RangeDayGathered ==
    /\ run.pc = "await_day" /\ run.kind = "range"
    /\ GatherDone(tasks)
    /\ flog' = Append(flog, Gathered(DayOf(Head(run.batch_tasks)), tasks))
    /\ LET day == DayOf(Head(run.batch_tasks))
       IN  run' = [run EXCEPT
                      !.pc = "save",
                      !.day_ticks = GatherResults(tasks, 0),
                      !.absent = @ \cup {HourStart(day, h) : h \in {x \in Hours : tasks[x].kinds = {"404"}}},
                      !.failed = @ \cup {HourStart(day, h) : h \in {x \in Hours : FetchFailed(tasks[x])}},
                      !.contributed = @ \cup {HourStart(day, h) : h \in ContributingHours(tasks)},
                      !.keys = @ \cup UNION {BatchKeys(tasks[h].result) : h \in Hours},
                      !.fetched = @ \cup {day},
                      !.served = @ \cup {HourStart(day, h) :
                                            h \in {x \in Hours :
                                                     /\ tasks[x].result # <<>>
                                                     /\ InsideHour(tasks[x].result, HourStart(day, x))
                                                            = 1..Len(tasks[x].result)}}]
    /\ tasks' = <<>>
    /\ UNCHANGED <<storeVars, writeVars, fm, permits, refreshes>>

\* A mutation of RangeSaveDay: a failed write is logged and the run goes on
\* with the next day.
RangeSaveDayContinue ==
    /\ run.pc = "save" /\ run.kind = "range"
    /\ \E fault \in Faults(run.day_ticks) :
          LET tx == IF run.day_ticks = <<>>
                    THEN [tbl |-> bitcoin_ticks, raised |-> FALSE]
                    ELSE UpsertTransaction("bitcoin", bitcoin_ticks, run.day_ticks, fault)
              written == IF tx.raised THEN 0 ELSE Len(run.day_ticks)
          IN  /\ bitcoin_ticks' = tx.tbl
              /\ flog' = IF run.day_ticks = <<>> THEN flog
                         ELSE Append(flog, Written(DayOf(Head(run.batch_tasks)), tx.raised))
              /\ IF Tail(run.batch_tasks) # <<>>
                 THEN /\ run' = [run EXCEPT !.pc = "await_day",
                                            !.total_ticks = @ + written,
                                            !.day_ticks = <<>>,
                                            !.batch_tasks = Tail(@)]
                      /\ tasks' = [h \in Hours |-> QueuedTask]
                 ELSE /\ run' = [run EXCEPT !.pc = "while",
                                            !.total_ticks = @ + written,
                                            !.day_ticks = <<>>,
                                            !.batch_tasks = <<>>]
                      /\ tasks' = <<>>
    /\ UNCHANGED <<forex_ticks, writeVars, fm, permits, refreshes>>

\* `if day_ticks: save_to_database(df)`, then the next day of the batch or
\* back to the loop test.
RangeSaveDay ==
    /\ run.pc = "save" /\ run.kind = "range"
    /\ \E fault \in Faults(run.day_ticks) :
          LET tx == IF run.day_ticks = <<>>
                    THEN [tbl |-> bitcoin_ticks, raised |-> FALSE]
                    ELSE UpsertTransaction("bitcoin", bitcoin_ticks, run.day_ticks, fault)
          IN  /\ bitcoin_ticks' = tx.tbl
              /\ flog' = IF run.day_ticks = <<>> THEN flog
                         ELSE Append(flog, Written(DayOf(Head(run.batch_tasks)), tx.raised))
              /\ IF tx.raised
                 THEN /\ run' = [run EXCEPT !.pc = "raised", !.outcome = "save_raised"]
                      /\ tasks' = <<>>
                 ELSE IF Tail(run.batch_tasks) # <<>>
                 THEN /\ run' = [run EXCEPT !.pc = "await_day",
                                            !.total_ticks = @ + Len(run.day_ticks),
                                            !.day_ticks = <<>>,
                                            !.batch_tasks = Tail(@)]
                      /\ tasks' = [h \in Hours |-> QueuedTask]
                 ELSE /\ run' = [run EXCEPT !.pc = "while",
                                            !.total_ticks = @ + Len(run.day_ticks),
                                            !.day_ticks = <<>>,
                                            !.batch_tasks = <<>>]
                      /\ tasks' = <<>>
    /\ UNCHANGED <<forex_ticks, writeVars, fm, permits, refreshes>>

\* After the loop: `if total_ticks > 0: self.refresh_candles(...)`.
RangeSummary ==
    /\ run.pc = "summary" /\ run.kind = "range"
    /\ \E ok \in BOOLEAN :
          /\ refreshes' = IF run.total_ticks > 0
                          THEN refresh_candles(refreshes, run.symbol, run.start_date, run.end_date, ok)
                          ELSE refreshes
          /\ run' = [run EXCEPT !.pc = "done", !.outcome = "finished",
                                !.refresh_raised = run.total_ticks > 0 /\ ~ok]
    /\ UNCHANGED <<storeVars, writeVars, fm, tasks, permits, flog>>

\* A caller runs the gap detector after the ranged backfill has ended.
RangeFindMissing ==
    /\ run.pc = "done" /\ run.kind = "range"
    /\ ~fm.called
    /\ \E start_date \in HorizonTimes : \E end_date \in HorizonTimes :
          fm' = [called |-> TRUE, symbol |-> run.symbol, start_date |-> start_date,
                 end_date |-> end_date,
                 result |-> find_missing_hours(bitcoin_ticks, run.symbol, start_date, end_date)]
    /\ UNCHANGED <<storeVars, writeVars, runVars>>

RangeNext ==
    \/ RangeStart
    \/ RangeBatch
    \/ RangeAcquire
    \/ RangeAttempt
    \/ RangeSleepDone
    \/ RangeDayGathered
    \/ RangeSaveDay
    \/ RangeSummary
    \/ RangeFindMissing

RangeSpec == RangeInit /\ [][RangeNext]_vars

\* The hourly buckets of the days start_date..end_date of a ranged backfill.
RangeHours(start_date, end_date) ==
    {h \in HorizonTimes : TruncHour(h) = h /\ DayStart(start_date) <= h /\ h <= DayEnd(end_date)}
LastHourOf(end_date) == DayEnd(end_date) - (UnitsPerHour - 1)
StoredHours(tbl, symbol) == {TruncHour(r.time) : r \in {x \in tbl : x.symbol = symbol}}

\* The ranged backfill ended with every hour of its range either absent
\* (only 404 answers) or served (ticks, all of them inside the hour), and the
\* gap detector was then called over the range's first to last hour.
EndToEndCase ==
    /\ run.pc = "done" /\ run.kind = "range" /\ run.outcome = "finished"
    /\ run.start_date <= run.end_date
    /\ RangeHours(run.start_date, run.end_date) \subseteq (run.absent \cup run.served)
    /\ fm.called
    /\ fm.start_date = run.start_date

\* C8: after a ranged backfill in which some hours were absent and all others
\* returned ticks, the store holds ticks for exactly the non-absent hours and
\* find_missing_hours over the range, first hour to last hour, returns
\* exactly the absent hours.
C8_EndToEndAbsence ==
    (EndToEndCase /\ fm.end_date = LastHourOf(run.end_date)) =>
        /\ StoredHours(bitcoin_ticks, run.symbol)
               = RangeHours(run.start_date, run.end_date) \ run.absent
        /\ fm.result = SortedSeq(run.absent)

\* ------------------------------------------------------------------ the worker pool of a ranged backfill
\* The event loop runs every coroutine that is ready: a coroutine that can
\* enter the semaphore does, a request in flight ends (the client timeout is
\* 30 s), a backoff sleep ends.
RangeFairSpec ==
    /\ RangeSpec
    /\ WF_vars(RangeAcquire)
    /\ WF_vars(RangeAttempt)
    /\ WF_vars(RangeSleepDone)

\* The hourly fetches that are inside `async with semaphore`.
HoldingPermit == {h \in DOMAIN tasks : tasks[h].pc \in {"attempt", "backoff"}}
SemaphoreCreated == run.kind = "range" /\ run.outcome # "unsupported"

C12_WriteOrdering ==
    \A i \in DOMAIN flog :
        flog[i].ev = "write" =>
            /\ i > 1
            /\ flog[i - 1] = [ev |-> "gathered", day |-> flog[i].day, resolved |-> Hours]
            /\ \A j \in 1..(i - 1) :
                  /\ flog[j].day <= flog[i].day
                  /\ flog[j].ev = "write" => flog[j].day < flog[i].day

\* Two days were written, the second after the first.
C12_Witness ==
    \E i \in DOMAIN flog : \E j \in DOMAIN flog :
        /\ i < j
        /\ flog[i].ev = "write" /\ flog[j].ev = "write"
        /\ flog[i].day < flog[j].day

\* ------------------------------------------------------------------ sequential ranged backfill (ingest_historical_data)
\* ingest_historical_data up to the first hour of the first day, or to its
\* end when the range is empty.
SeqStart ==
    /\ run = RunNone
    /\ \E symbol \in {"EURUSD"} : \E start_date \in Midnights : \E end_date \in Midnights :
          run' = [pc |-> IF start_date <= end_date THEN "seq_hour" ELSE "done",
                  kind |-> "seq", symbol |-> symbol,
                  start_date |-> start_date, end_date |-> end_date,
                  current_date |-> start_date, hour |-> 0, daily_ticks |-> <<>>,
                  failed |-> {}, contributed |-> {}, keys |-> {}, fetched |-> {},
                  outcome |-> IF start_date <= end_date THEN "running" ELSE "finished"]
    /\ UNCHANGED <<storeVars, writeVars, fm, tasks, permits, refreshes, flog>>

\* One pass of `for hour in range(24)`: the pause, the download, the parse;
\* any exception is logged and the loop continues with the next hour.
SeqHour ==
    /\ run.pc = "seq_hour" /\ run.kind = "seq"
    /\ \E resp \in Responses :
          LET day == DayOf(run.current_date)
              hour_base == HourStart(day, run.hour)
              ticks == ForexHourBody(resp, run.symbol, hour_base)
              last == run.hour = HoursPerDay - 1
          IN  run' = [run EXCEPT
                         !.pc = IF last THEN "seq_upsert" ELSE "seq_hour",
                         !.hour = IF last THEN 0 ELSE @ + 1,
                         !.daily_ticks = @ \o ticks,
                         !.failed = IF resp.kind \in {"error", "crash"}
                                    THEN @ \cup {hour_base} ELSE @,
                         !.contributed = IF ticks # <<>> THEN @ \cup {hour_base} ELSE @,
                         !.keys = @ \cup BatchKeys(ticks),
                         !.fetched = IF last THEN @ \cup {day} ELSE @]
    /\ UNCHANGED <<storeVars, writeVars, fm, tasks, permits, refreshes, flog>>

\* `if daily_ticks:` the bulk upsert of the day in one transaction, then the
\* next day or the end of the loop; an exception of the upsert leaves
\* ingest_historical_data.
SeqUpsertDay ==
    /\ run.pc = "seq_upsert" /\ run.kind = "seq"
    /\ \E fault \in Faults(run.daily_ticks) :
          LET tx == IF run.daily_ticks = <<>>
                    THEN [tbl |-> forex_ticks, raised |-> FALSE]
                    ELSE UpsertTransaction("forex", forex_ticks, run.daily_ticks, fault)
              next_date == run.current_date + UnitsPerDay
          IN  /\ forex_ticks' = tx.tbl
              /\ flog' = IF run.daily_ticks = <<>> THEN flog
                         ELSE Append(flog, Written(DayOf(run.current_date), tx.raised))
              /\ run' = IF tx.raised
                        THEN [run EXCEPT !.pc = "raised", !.outcome = "save_raised"]
                        ELSE IF next_date <= run.end_date
                        THEN [run EXCEPT !.pc = "seq_hour", !.current_date = next_date,
                                         !.daily_ticks = <<>>]
                        ELSE [run EXCEPT !.pc = "done", !.current_date = next_date,
                                         !.daily_ticks = <<>>, !.outcome = "finished"]
    /\ UNCHANGED <<bitcoin_ticks, writeVars, fm, tasks, permits, refreshes>>

SeqNext ==
    \/ SeqStart
    \/ SeqHour
    \/ SeqUpsertDay

\* A ranged backfill by either range ingester.
BackfillNext ==
    \/ RangeNext
    \/ SeqNext

BackfillSpec == RangeInit /\ [][BackfillNext]_vars

\* ------------------------------------------------------------------ per-hour failure isolation
RunTable == IF run.kind = "range" THEN bitcoin_ticks ELSE forex_ticks
DaysOfRange == DayOf(run.start_date)..DayOf(run.end_date)
BackfillRunning == run.kind \in {"range", "seq"} /\ run.outcome # "unsupported"

\* C13: when the fetch of an hour failed on all attempts or raised, that hour
\* contributes no tick; the run is left early only by a failed write, never
\* by the fetch error; and a run that finished has fetched every day of the
\* range and the store holds a row for every tick the other hours returned.
C13_HourFailureIsolation ==
    (BackfillRunning /\ run.failed # {}) =>
        /\ run.failed \cap run.contributed = {}
        /\ run.pc = "raised" =>
              (flog # <<>> /\ flog[Len(flog)].ev = "write" /\ flog[Len(flog)].raised)
        /\ run.outcome = "finished" =>
              /\ run.fetched = DaysOfRange
              /\ run.keys \subseteq {Key(r) : r \in RunTable}

\* A two-day run finished although an hour of the first day failed, and
\* another hour of that day delivered ticks.
C13_Witness ==
    /\ BackfillRunning /\ run.outcome = "finished"
    /\ DayOf(run.start_date) < DayOf(run.end_date)
    /\ \E f \in run.failed : \E c \in run.contributed :
          DayOf(f) = DayOf(run.start_date) /\ DayOf(c) = DayOf(f) /\ c # f

\* ------------------------------------------------------------------ market hours (Freshness Monitor)
\* The wall clock of the Monitor is a UTC instant of the week, counted in
\* minutes from Monday 00:00; datetime.weekday() numbers Monday 0 .. Sunday 6.
ClockMinutesPerHour == 60
ClockHoursPerDay == 24
ClockDaysPerWeek == 7
FridayWeekday == 4
SaturdayWeekday == 5
SundayWeekday == 6
MarketBoundaryHour == 21

ClockMinutesPerDay == ClockHoursPerDay * ClockMinutesPerHour
ClockInstants == 0..(ClockDaysPerWeek * ClockMinutesPerDay - 1)
Instant(weekday, hour, minute) == (weekday * ClockHoursPerDay + hour) * ClockMinutesPerHour + minute

\* now.weekday() and now.hour
Weekday(now) == now \div ClockMinutesPerDay
HourOf(now) == (now % ClockMinutesPerDay) \div ClockMinutesPerHour

\* A mutation of is_market_open: Sunday's test reads `hour <= 21`.
is_market_openSundayInclusive(now) ==
    IF Weekday(now) = SaturdayWeekday THEN FALSE
    ELSE IF Weekday(now) = SundayWeekday /\ HourOf(now) <= MarketBoundaryHour THEN FALSE
    ELSE IF Weekday(now) = FridayWeekday /\ HourOf(now) >= MarketBoundaryHour THEN FALSE
    ELSE TRUE

\* DukascopyAutoIngester.is_market_open at the instant `now`.
is_market_open(now) ==
    IF Weekday(now) = SaturdayWeekday THEN FALSE
    ELSE IF Weekday(now) = SundayWeekday /\ HourOf(now) < MarketBoundaryHour THEN FALSE
    ELSE IF Weekday(now) = FridayWeekday /\ HourOf(now) >= MarketBoundaryHour THEN FALSE
    ELSE TRUE

ClockInit ==
    /\ bitcoin_ticks = {}
    /\ forex_ticks = {}
    /\ WriteIdle
    /\ fm = FmNone
    /\ run \in {[pc |-> "clock", kind |-> "clock", now |-> n, called |-> FALSE, open |-> FALSE] :
                   n \in ClockInstants}
    /\ tasks = <<>>
    /\ permits = 0
    /\ refreshes = <<>>
    /\ flog = <<>>

\* is_market_open is called at the instant the clock shows.
IsMarketOpenCall ==
    /\ run.kind = "clock" /\ ~run.called
    /\ run' = [run EXCEPT !.called = TRUE, !.open = is_market_open(run.now)]
    /\ UNCHANGED <<storeVars, writeVars, fm, tasks, permits, refreshes, flog>>

ClockNext == IsMarketOpenCall

ClockSpec == ClockInit /\ [][ClockNext]_vars

\* The instants at which the venue is documented closed: all Saturday, Sunday
\* before 21:00, Friday from 21:00 on.
DocumentedClosed(now) ==
    \/ Instant(SaturdayWeekday, 0, 0) <= now /\ now < Instant(SundayWeekday, 0, 0)
    \/ Instant(SundayWeekday, 0, 0) <= now /\ now < Instant(SundayWeekday, MarketBoundaryHour, 0)
    \/ Instant(FridayWeekday, MarketBoundaryHour, 0) <= now /\ now < Instant(SaturdayWeekday, 0, 0)

\* C14: for every UTC instant is_market_open returns false exactly when the
\* instant is on a Saturday, on a Sunday before 21:00 or on a Friday at or
\* after 21:00; Saturday 12:00, Sunday 20:59 and Friday 21:01 are closed,
\* Sunday 21:01 and Friday 20:59 are open.
C14_MarketHours ==
    (run.kind = "clock" /\ run.called) =>
        /\ run.open = ~DocumentedClosed(run.now)
        /\ run.now \in {Instant(SaturdayWeekday, 12, 0), Instant(SundayWeekday, 20, 59),
                         Instant(FridayWeekday, 21, 1)} => ~run.open
        /\ run.now \in {Instant(SundayWeekday, 21, 1), Instant(FridayWeekday, 20, 59)} => run.open

\* The predicate was evaluated at the opening instant, Sunday 21:00.
C14_Witness ==
    /\ run.kind = "clock" /\ run.called
    /\ run.now = Instant(SundayWeekday, MarketBoundaryHour, 0)
    /\ run.open

\* ------------------------------------------------------------------ Freshness Monitor (monitor.py)
LookbackDays == 30
CooldownSeconds == 60

\* The configured symbols, in the order of the configuration file.
MonitorSymbols == <<"EURUSD", "USDJPY">>
SymbolSet == {MonitorSymbols[i] : i \in DOMAIN MonitorSymbols}

\* An optional timestamp: None, or a time.
None == [has |-> FALSE]
Some(t) == [has |-> TRUE, t |-> t]

\* The hours the freshness signal may report, and the tick times of the
\* local store: before, between and after them.
CloudHours == {HourStart(0, 1), HourStart(1, 0)}
MonitorTickTimes == {1, UnitsPerDay - 1, UnitsPerDay + 1}
StoredRow(t, symbol) == InsertedRow("forex", Tick(t, symbol, QuoteOf(1)))
MonitorRows == {StoredRow(t, symbol) : t \in MonitorTickTimes, symbol \in SymbolSet}

\* What the cloud monitor's URL answers: a failed request (or a body without
\* summary.latest_common_hour), a JSON body with the summary but without
\* 'symbols', or the lambda's body: per symbol the latest available hour or null.
CloudResponses ==
    {[kind |-> "fail"], [kind |-> "no_symbols"]}
        \cup {[kind |-> "ok", symbols |-> m] :
                 m \in [SymbolSet -> {None} \cup {Some(h) : h \in CloudHours}]}

\* check_cloud_monitor: the parsed body, or None when anything raised.
check_cloud_monitor(resp) == IF resp.kind = "fail" THEN None ELSE [has |-> TRUE, data |-> resp]

\* SELECT MAX(time) FROM forex_ticks WHERE symbol = %s
StoredLatest(tbl, symbol) ==
    IF SymbolTimes(tbl, symbol) = {} THEN None ELSE Some(MaxTimeOf(tbl, symbol))

\* A mutation of check_local_database: a failed query is answered from the
\* store as if it had succeeded.
check_local_databaseUnfailing(tbl, symbol, db_ok) == StoredLatest(tbl, symbol)

\* check_local_database: the latest tick time, or None when the symbol has no
\* row and also when the query raised.
check_local_database(tbl, symbol, db_ok) == IF db_ok THEN StoredLatest(tbl, symbol) ELSE None

\* A mutation of needs_ingestion: `cloud_time >= local_latest`.
needs_ingestionNotStrict(cloud_latest, local_latest) ==
    IF ~cloud_latest.has THEN FALSE
    ELSE IF ~local_latest.has THEN TRUE
    ELSE cloud_latest.t >= local_latest.t

\* needs_ingestion
needs_ingestion(cloud_latest, local_latest) ==
    IF ~cloud_latest.has THEN FALSE
    ELSE IF ~local_latest.has THEN TRUE
    ELSE cloud_latest.t > local_latest.t

\* monitor_once, "Calculate date range": the dates handed to the ingester.
StartDate(cloud_time, local_latest) ==
    IF local_latest.has THEN DayStart(local_latest.t)
    ELSE DayStart(cloud_time - LookbackDays * UnitsPerDay)
EndDate(cloud_time) == DayStart(cloud_time)

\* What the launched ingester (ingest_historical_data over the days
\* start_date..end_date) leaves in the store: nothing, or a row of the
\* symbol at a time of those days.
IngestEffects(symbol, start_date, end_date) ==
    {{}} \cup {{r} : r \in {x \in MonitorRows :
                               /\ x.symbol = symbol
                               /\ start_date <= x.time
                               /\ x.time < end_date + UnitsPerDay}}

\* subprocess.run: return code 0, another return code, or an exception.
SubprocessOutcomes == {"ok", "failed", "crash"}

\* A mutation of run_ingestion: an exception of subprocess.run is not caught.
run_ingestionUncaught(dry_run, outcome) ==
    IF dry_run THEN [executed |-> FALSE, returned |-> TRUE, raised |-> FALSE]
    ELSE [executed |-> TRUE, returned |-> outcome = "ok", raised |-> outcome = "crash"]

\* run_ingestion, the ingester script being in place: the command is logged;
\* a dry run returns True without executing it; otherwise the subprocess
\* runs, and a non-zero return code or an exception is logged and gives False.
run_ingestion(dry_run, outcome) ==
    IF dry_run THEN [executed |-> FALSE, returned |-> TRUE, raised |-> FALSE]
    ELSE [executed |-> TRUE, returned |-> outcome = "ok", raised |-> FALSE]

\* A mutation of CycleProceeds: the cycle is not gated by the market hours.
CycleProceedsUngated(now) == TRUE

\* monitor_once: `if not self.is_market_open(): return`
CycleProceeds(now) == is_market_open(now)

\* A mutation of OnCycleException: the exception ends the loop.
OnCycleExceptionCrash(r) == [r EXCEPT !.pc = "stopped", !.todo = <<>>]

\* run_forever: `except Exception`: log, then time.sleep(60).
OnCycleException(r) == [r EXCEPT !.pc = "cooldown", !.todo = <<>>]

\* The instants at which a poll cycle may start.
ClockSamples ==
    {Instant(SaturdayWeekday, 12, 0), Instant(SundayWeekday, 21, 1),
     Instant(FridayWeekday, 21, 1)}

\* Entries of the log of one poll cycle.
CycleEvent(open) == [ev |-> "cycle", open |-> open]
CloudGet(kind) == [ev |-> "cloud_get", kind |-> kind]
SkipEvent(symbol) == [ev |-> "skip", symbol |-> symbol]
DbRead(symbol, ok) == [ev |-> "db_read", symbol |-> symbol, ok |-> ok]
Decision(symbol, cloud_latest, stored, local_latest, ingest) ==
    [ev |-> "decision", symbol |-> symbol, cloud_latest |-> cloud_latest,
     stored |-> stored, local_latest |-> local_latest, ingest |-> ingest]
Command(symbol, start_date, end_date) ==
    [ev |-> "command", symbol |-> symbol, start_date |-> start_date, end_date |-> end_date]
Subprocess(symbol, start_date, end_date, outcome) ==
    [ev |-> "subprocess", symbol |-> symbol, start_date |-> start_date,
     end_date |-> end_date, outcome |-> outcome]
ExceptionEvent == [ev |-> "exception"]
CooldownEvent == [ev |-> "cooldown", secs |-> CooldownSeconds]
InterruptEvent == [ev |-> "interrupt"]

\* The Monitor after __init__, the configuration read, before run_forever's
\* first cycle.
MonitorInit ==
    /\ bitcoin_ticks = {}
    /\ forex_ticks \in SeedTables(MonitorRows, MaxSeed)
    /\ WriteIdle
    /\ fm = FmNone
    /\ run \in {[pc |-> "idle", kind |-> "monitor", dry_run |-> d,
                  cloud_data |-> [kind |-> "fail"], todo |-> <<>>] : d \in BOOLEAN}
    /\ tasks = <<>>
    /\ permits = 0
    /\ refreshes = <<>>
    /\ flog = <<>>

\* monitor_once up to the symbol loop: the market gate, then the freshness
\* signal; a closed market or a failed signal ends the cycle.
MonitorCycle ==
    /\ run.kind = "monitor" /\ run.pc = "idle"
    /\ \E now \in ClockSamples :
          IF ~CycleProceeds(now)
          THEN /\ run' = [run EXCEPT !.pc = "sleep", !.todo = <<>>]
               /\ flog' = <<CycleEvent(is_market_open(now))>>
          ELSE \E resp \in CloudResponses :
                  LET cloud_data == check_cloud_monitor(resp)
                  IN  /\ flog' = <<CycleEvent(is_market_open(now)), CloudGet(resp.kind)>>
                      /\ run' = IF ~cloud_data.has
                                THEN [run EXCEPT !.pc = "sleep", !.todo = <<>>]
                                ELSE [run EXCEPT !.pc = "symbols", !.todo = MonitorSymbols,
                                                 !.cloud_data = cloud_data.data]
    /\ UNCHANGED <<storeVars, writeVars, fm, tasks, permits, refreshes>>

\* The loop moves to the next symbol, or monitor_once returns.
NextSymbol(r) ==
    [r EXCEPT !.todo = Tail(@), !.pc = IF Tail(r.todo) = <<>> THEN "sleep" ELSE "symbols"]

\* One pass of `for symbol in self.symbols`: the symbol's entry of the
\* signal, the latest local tick, the decision, the date range, the
\* ingestion, the 1 s pause.
MonitorSymbol ==
    /\ run.kind = "monitor" /\ run.pc = "symbols"
    /\ LET symbol == Head(run.todo)
       IN  IF run.cloud_data.kind = "no_symbols"
           THEN /\ run' = OnCycleException(run)
                /\ flog' = flog \o (IF OnCycleException(run).pc = "cooldown"
                                     THEN <<ExceptionEvent, CooldownEvent>>
                                     ELSE <<ExceptionEvent>>)
                /\ UNCHANGED forex_ticks
           ELSE LET cloud_latest == run.cloud_data.symbols[symbol]
                IN  IF ~cloud_latest.has
                    THEN /\ run' = NextSymbol(run)
                         /\ flog' = Append(flog, SkipEvent(symbol))
                         /\ UNCHANGED forex_ticks
                    ELSE \E db_ok \in BOOLEAN : \E outcome \in SubprocessOutcomes :
                           LET local_latest == check_local_database(forex_ticks, symbol, db_ok)
                               ingest == needs_ingestion(cloud_latest, local_latest)
                               start_date == StartDate(cloud_latest.t, local_latest)
                               end_date == EndDate(cloud_latest.t)
                               res == run_ingestion(run.dry_run, outcome)
                               seen == <<DbRead(symbol, db_ok),
                                         Decision(symbol, cloud_latest,
                                                  StoredLatest(forex_ticks, symbol),
                                                  local_latest, ingest)>>
                           IN  IF ~ingest
                               THEN /\ run' = NextSymbol(run)
                                    /\ flog' = flog \o seen
                                    /\ UNCHANGED forex_ticks
                               ELSE /\ flog' = flog \o seen
                                                \o <<Command(symbol, start_date, end_date)>>
                                                \o (IF res.executed
                                                    THEN <<Subprocess(symbol, start_date,
                                                                      end_date, outcome)>>
                                                    ELSE <<>>)
                                                \o (IF res.raised THEN <<ExceptionEvent>> ELSE <<>>)
                                    /\ run' = IF res.raised THEN OnCycleException(run)
                                              ELSE NextSymbol(run)
                                    /\ IF res.executed /\ outcome # "crash"
                                       THEN \E rows \in IngestEffects(symbol, start_date, end_date) :
                                               forex_ticks' = forex_ticks \cup rows
                                       ELSE UNCHANGED forex_ticks
    /\ UNCHANGED <<bitcoin_ticks, writeVars, fm, tasks, permits, refreshes>>

\* run_forever: the poll-interval sleep after a cycle ends.
MonitorSleepDone ==
    /\ run.kind = "monitor" /\ run.pc = "sleep"
    /\ run' = [run EXCEPT !.pc = "idle"]
    /\ UNCHANGED <<storeVars, writeVars, fm, tasks, permits, refreshes, flog>>

\* run_forever: the 60 s sleep of the exception handler ends.
MonitorCooldownDone ==
    /\ run.kind = "monitor" /\ run.pc = "cooldown"
    /\ run' = [run EXCEPT !.pc = "idle"]
    /\ UNCHANGED <<storeVars, writeVars, fm, tasks, permits, refreshes, flog>>

\* The operator interrupts the Monitor (KeyboardInterrupt): the loop ends.
MonitorInterrupt ==
    /\ run.kind = "monitor" /\ run.pc \in {"idle", "symbols", "sleep", "cooldown"}
    /\ run' = [run EXCEPT !.pc = "stopped", !.todo = <<>>]
    /\ flog' = Append(flog, InterruptEvent)
    /\ UNCHANGED <<storeVars, writeVars, fm, tasks, permits, refreshes>>

MonitorNext ==
    \/ MonitorCycle
    \/ MonitorSymbol
    \/ MonitorSleepDone
    \/ MonitorCooldownDone
    \/ MonitorInterrupt

MonitorSpec == MonitorInit /\ [][MonitorNext]_vars

\* The cycle runs on: a cycle that can start does, a symbol's pass ends (the
\* requests have timeouts and the ingester returns), a sleep ends.  Nothing
\* obliges the operator to interrupt.
MonitorFairSpec ==
    /\ MonitorSpec
    /\ WF_vars(MonitorCycle)
    /\ WF_vars(MonitorSymbol)
    /\ WF_vars(MonitorSleepDone)
    /\ WF_vars(MonitorCooldownDone)

\* The entries of the current cycle's log of one kind.
Events(kind) == {i \in DOMAIN flog : flog[i].ev = kind}
CycleClosed == flog # <<>> /\ flog[1].ev = "cycle" /\ ~flog[1].open

\* C15: a poll cycle that starts while the market is closed queries neither
\* the freshness signal nor the local store and starts no ingestion; its log
\* holds nothing but its start, and the Monitor goes to the poll sleep.
C15_MarketGating ==
    (run.kind = "monitor" /\ CycleClosed) =>
        /\ Events("cloud_get") = {} /\ Events("db_read") = {}
        /\ Events("command") = {} /\ Events("subprocess") = {}
        /\ run.pc \in {"sleep", "idle", "stopped"}

\* A cycle started on a closed market and ended in the poll sleep.
C15_Witness ==
    /\ run.kind = "monitor" /\ CycleClosed
    /\ run.pc = "sleep"

\* An ingestion was started for the symbol in the current cycle.
Started(symbol) == \E j \in Events("subprocess") : flog[j].symbol = symbol
Lagging(cloud_latest, stored) ==
    cloud_latest.has /\ (~stored.has \/ cloud_latest.t > stored.t)

\* C16: within a poll cycle the Monitor reads the freshness signal once, and
\* it starts an ingestion for a configured symbol if and only if the signal
\* reports a latest hour for it and the store holds no tick of the symbol or
\* that hour is strictly later than the symbol's latest stored tick; at most
\* one ingestion per symbol per cycle.
C16_OnlyLaggingIngested ==
    (run.kind = "monitor" /\ ~run.dry_run) =>
        /\ Cardinality(Events("cloud_get")) <= 1
        /\ \A symbol \in SymbolSet :
              Cardinality({j \in Events("subprocess") : flog[j].symbol = symbol}) <= 1
        /\ \A i \in Events("skip") : ~Started(flog[i].symbol)
        /\ \A i \in Events("decision") :
              Started(flog[i].symbol) <=> Lagging(flog[i].cloud_latest, flog[i].stored)

\* The hourly buckets from one time to another, ends included.
HoursBetween(from_time, to_time) ==
    {TruncHour(from_time) + k * UnitsPerHour :
        k \in 0..((TruncHour(to_time) - TruncHour(from_time)) \div UnitsPerHour)}
\* The hourly buckets the ingester is asked for: the days start_date..end_date.
RequestedHours(start_date, end_date) ==
    HoursBetween(start_date, end_date + UnitsPerDay - 1)

\* C17: for every symbol the Monitor decides to ingest, the requested window
\* starts at the symbol's local latest tick (30 days before the external
\* latest hour when there is none), ends at the external latest hour, does
\* not start after its end, and the ingester is invoked for just that window.
C17_BackfillWindow ==
    run.kind = "monitor" =>
        \A i \in Events("command") :
            LET d == flog[i - 1]
                from_time == IF d.local_latest.has THEN d.local_latest.t
                             ELSE d.cloud_latest.t - LookbackDays * UnitsPerDay
                to_time == d.cloud_latest.t
            IN  /\ from_time <= to_time
                /\ RequestedHours(flog[i].start_date, flog[i].end_date)
                       = HoursBetween(from_time, to_time)

\* A symbol's pass failed: the store query, or the ingestion.
FailureEvents ==
    {i \in Events("db_read") : ~flog[i].ok}
        \cup {i \in Events("subprocess") : flog[i].outcome \in {"failed", "crash"}}
Processed == {flog[i].symbol : i \in Events("skip") \cup Events("decision")}

\* C18: a failure while processing one symbol (store query, ingestion
\* failing or crashing) is not propagated to the loop: no exception leaves
\* the cycle, the symbols after it are processed in the same cycle, and the
\* cycle ends in the poll sleep with every configured symbol processed.
C18_SymbolFailureIsolation ==
    (run.kind = "monitor" /\ FailureEvents # {}) =>
        /\ Events("exception") = {}
        /\ run.pc \in {"symbols", "sleep", "idle", "stopped"}
        /\ run.pc = "symbols" =>
              Processed = SymbolSet \ {run.todo[k] : k \in DOMAIN run.todo}
        /\ run.pc \in {"sleep", "idle"} => Processed = SymbolSet

\* The first symbol's pass failed, the last symbol was processed after it and
\* the cycle ended.
C18_Witness ==
    /\ run.kind = "monitor" /\ run.pc = "sleep"
    /\ \E i \in FailureEvents : \E j \in Events("decision") :
          /\ i < j
          /\ flog[i].symbol = MonitorSymbols[1]
          /\ flog[j].symbol = MonitorSymbols[Len(MonitorSymbols)]

\* C19: an exception raised during a poll cycle is caught and followed by the
\* 60 s cooldown; the loop ends only on an operator interrupt; and, unless
\* interrupted, the Monitor always comes back to idle and from idle starts
\* the next cycle.
C19_LoopSurvives ==
    /\ [](run.kind = "monitor" =>
            /\ Events("exception") # {} =>
                  (Events("cooldown") # {} /\ run.pc \in {"cooldown", "idle", "stopped"})
            /\ \A i \in Events("cooldown") : flog[i].secs = 60 /\ flog[i - 1].ev = "exception"
            /\ run.pc = "stopped" => flog[Len(flog)].ev = "interrupt")
    /\ (run.pc \in {"symbols", "sleep", "cooldown"}) ~> (run.pc \in {"idle", "stopped"})
    /\ (run.pc = "idle") ~> (run.pc # "idle")

\* Polling has resumed after a cooldown.
C19_Witness ==
    /\ run.kind = "monitor" /\ run.pc = "idle"
    /\ flog # <<>> /\ flog[Len(flog)].ev = "cooldown"

\* C20: with --dry-run a poll cycle performs no network call (no request to
\* the freshness signal, no ingester run) and no storage call (no read of
\* the local store, no write).
C20_DryRunNoEffect ==
    (run.kind = "monitor" /\ run.dry_run) =>
        /\ Events("cloud_get") = {}
        /\ Events("db_read") = {}
        /\ Events("subprocess") = {}

\* ------------------------------------------------------------------ freshness signal cache (lambda_function.py)
CACHE_TTL_SECONDS == 300
MaxClock == 700

\* Seconds that may pass between two requests, and the seconds one
\* computation of the summary takes.
ClockSteps == {CACHE_TTL_SECONDS - 1, CACHE_TTL_SECONDS}
ComputeSeconds == {0, 1}
Paths == {"/", "/health"}

\* check_all_symbols_fast, find_latest_available_hour("EURUSD") having
\* returned baseline_hour and `available` being the symbols that have the
\* baseline hour (the full search of the others finding nothing): without a
\* baseline every symbol is an error with latest_available null.
check_all_symbols_fast(baseline_hour, available) ==
    IF ~baseline_hour.has
    THEN [symbols |-> [s \in SymbolSet |-> [status |-> "error", latest_available |-> None]],
          latest_common_hour |-> None]
    ELSE [symbols |-> [s \in SymbolSet |->
                          IF s \in available
                          THEN [status |-> "ok", latest_available |-> baseline_hour]
                          ELSE [status |-> "no_data", latest_available |-> None]],
          latest_common_hour |-> baseline_hour]

\* The summaries the upstream's state can give.
Summaries ==
    {check_all_symbols_fast(b, a) :
        b \in {None} \cup {Some(h) : h \in CloudHours}, a \in SUBSET SymbolSet}

\* A mutation of CacheStore: a summary without a baseline hour is not cached.
CacheStoreSuccessOnly(old, results, now) ==
    IF results.latest_common_hour.has THEN [has |-> TRUE, data |-> results, time |-> now]
    ELSE old

\* cache[cache_key] = (results, time.time())
CacheStore(old, results, now) == [has |-> TRUE, data |-> results, time |-> now]

\* A mutation of CacheFresh: `<=` instead of `<`.
CacheFreshInclusive(now, cached_time) == now - cached_time <= CACHE_TTL_SECONDS

\* time.time() - cached_time < CACHE_TTL_SECONDS
CacheFresh(now, cached_time) == now - cached_time < CACHE_TTL_SECONDS

\* The module after loading: an empty cache.
LambdaInit ==
    /\ bitcoin_ticks = {}
    /\ forex_ticks = {}
    /\ WriteIdle
    /\ fm = FmNone
    /\ run = [pc |-> "loaded", kind |-> "lambda", clock |-> 0, cache |-> None,
              last |-> [path |-> "none"]]
    /\ tasks = <<>>
    /\ permits = 0
    /\ refreshes = <<>>
    /\ flog = <<>>

\* Time passes between two invocations.
ClockTick ==
    /\ run.kind = "lambda"
    /\ \E d \in ClockSteps :
          /\ run.clock + d <= MaxClock
          /\ run' = [run EXCEPT !.clock = @ + d]
    /\ UNCHANGED <<storeVars, writeVars, fm, tasks, permits, refreshes, flog>>

\* lambda_handler for one event: the health answer, the cached summary, or a
\* new summary that is cached with the time at which it was ready.
lambda_handler ==
    /\ run.kind = "lambda"
    /\ \E path \in Paths : \E results \in Summaries : \E secs \in ComputeSeconds :
          IF path = "/health"
          THEN run' = [run EXCEPT !.pc = "served",
                          !.last = [path |-> path, at |-> run.clock, before |-> run.cache,
                                    body |-> None, upstream |-> FALSE]]
          ELSE IF run.cache.has /\ CacheFresh(run.clock, run.cache.time)
          THEN run' = [run EXCEPT !.pc = "served",
                          !.last = [path |-> path, at |-> run.clock, before |-> run.cache,
                                    body |-> run.cache.data, upstream |-> FALSE]]
          ELSE /\ run.clock + secs <= MaxClock
               /\ run' = [run EXCEPT !.pc = "served",
                              !.clock = @ + secs,
                              !.cache = CacheStore(run.cache, results, run.clock + secs),
                              !.last = [path |-> path, at |-> run.clock, before |-> run.cache,
                                        body |-> results, upstream |-> TRUE]]
    /\ UNCHANGED <<storeVars, writeVars, fm, tasks, permits, refreshes, flog>>

LambdaNext ==
    \/ ClockTick
    \/ lambda_handler

LambdaSpec == LambdaInit /\ [][LambdaNext]_vars

\* C21: a summary request arriving less than 300 s after the cached summary
\* was computed returns that summary, checks nothing upstream and leaves the
\* cache alone; one arriving 300 s or more after it (or with no cached
\* summary) recomputes the summary, returns it and caches it in place of the
\* old one; a health request checks nothing upstream and leaves the cache alone.
C21_CacheTtl ==
    (run.kind = "lambda" /\ run.last.path # "none") =>
        LET last == run.last
            young == last.before.has /\ last.at - last.before.time < 300
        IN  /\ (last.path = "/health") => (~last.upstream /\ run.cache = last.before)
            /\ (last.path = "/" /\ young) =>
                  /\ ~last.upstream
                  /\ last.body = last.before.data
                  /\ run.cache = last.before
            /\ (last.path = "/" /\ ~young) =>
                  /\ last.upstream
                  /\ run.cache.has /\ run.cache.data = last.body
                  /\ run.cache.time >= last.at

\* A request found a summary exactly 300 s old and replaced it.
C21_Witness ==
    /\ run.kind = "lambda" /\ run.last.path = "/"
    /\ run.last.before.has
    /\ run.last.at - run.last.before.time = 300
    /\ run.last.upstream

\* ------------------------------------------------------------------ failure of the aggregate refresh
\* C22: if the aggregate-refresh call of a run throws, the error reaches the
\* caller of the run and the run ends as failed; it does not end as finished.
C22_RefreshFailureFatal ==
    (run.kind = "range" /\ run.outcome # "unsupported" /\ run.refresh_raised) =>
        (run.pc = "raised" /\ run.outcome # "finished")

\* ------------------------------------------------------------------ command line of the crypto ingester (main)
\* The --symbol values argparse accepts (`choices`).
ArgparseChoices == {"BTCUSD", "ETHUSD", "LTCUSD", "XRPUSD", "BCHUSD", "BTCEUR", "ETHEUR"}

\* A mutation of ArgparseAccepts: --symbol has no `choices`.
ArgparseAcceptsAny(symbol) == TRUE

\* parser.parse_args(): a --symbol outside `choices` is a usage error.
ArgparseAccepts(symbol) == symbol \in ArgparseChoices

\* The command lines tried: a supported and an unsupported symbol, each date
\* given or not, with and without --fill-gaps.
CommandLines ==
    [symbol : {"BTCUSD", "EURUSD"}, start_date : {None, Some(0)},
     end_date : {None, Some(0)}, fill_gaps : BOOLEAN]

\* The process has ended: with a usage error (mode "usage") or after its run.
Exited(symbol, mode, code) == [pc |-> "exited", kind |-> "main", symbol |-> symbol,
                               mode |-> mode, code |-> code]

\* The store before the process starts: empty, or one tick of BTCUSD in the
\* first hour of a day, the day's other hours missing.
CliInit ==
    /\ bitcoin_ticks \in {{}, {Tick(0, "BTCUSD", QuoteOf(1))}}
    /\ forex_ticks = {}
    /\ WriteIdle
    /\ fm = FmNone
    /\ RunIdle

\* main up to the first await of its run: the arguments are parsed, the
\* ingester is created (create_engine opens no connection), then fill_gaps
\* or, the dates being given, ingest_date_range starts; parser.error exits
\* with status 2.
main ==
    /\ run = RunNone
    /\ \E args \in CommandLines :
          IF ~ArgparseAccepts(args.symbol)
          THEN /\ run' = Exited(args.symbol, "usage", 2)
               /\ UNCHANGED <<storeVars, writeVars, fm, tasks, permits, refreshes, flog>>
          ELSE IF args.fill_gaps
          THEN FillStartWith(args.symbol)
          ELSE IF ~args.start_date.has \/ ~args.end_date.has
          THEN /\ run' = Exited(args.symbol, "usage", 2)
               /\ UNCHANGED <<storeVars, writeVars, fm, tasks, permits, refreshes, flog>>
          ELSE RangeStartWith(args.symbol, args.start_date.t, args.end_date.t)

\* main after its run: get_data_summary and exit status 0, or the traceback
\* of the exception the run raised and exit status 1.
MainReturn ==
    /\ run.kind \in {"range", "fill"} /\ run.pc \in {"done", "raised"}
    /\ run' = Exited(run.symbol, run.kind, IF run.pc = "done" THEN 0 ELSE 1)
    /\ UNCHANGED <<storeVars, writeVars, fm, tasks, permits, refreshes, flog>>

CliNext ==
    \/ main
    \/ MainReturn
    \/ RangeBatch
    \/ RangeAcquire
    \/ RangeAttempt
    \/ RangeSleepDone
    \/ RangeDayGathered
    \/ RangeSaveDay
    \/ RangeSummary
    \/ FillAcquire
    \/ FillAttempt
    \/ FillSleepDone
    \/ FillHourAwaited
    \/ FillSaveDay
    \/ FillVerify

CliSpec == CliInit /\ [][CliNext]_vars

NoActivity ==
    /\ tasks = <<>> /\ flog = <<>> /\ refreshes = <<>> /\ ~fm.called
    /\ forex_ticks = {}
    /\ bitcoin_ticks \in {{}, {Tick(0, "BTCUSD", QuoteOf(1))}}

\* C23: a run for an unsupported symbol, and a ranged run without its dates,
\* ends with a non-zero exit before any upstream fetch and any storage read
\* or write: no run of the ingester ever works on an unsupported symbol, and
\* the usage exit carries a non-zero status with nothing fetched, read or written.
C23_ConfigErrorsFailFast ==
    /\ run.kind \in {"range", "fill"} => run.symbol \in crypto_symbols
    /\ (run.kind = "main" /\ run.symbol \notin crypto_symbols) =>
          (run.mode = "usage" /\ run.code # 0 /\ NoActivity)
    /\ (run.kind = "main" /\ run.mode = "usage") => (run.code # 0 /\ NoActivity)

\* The process ended on the usage error of an unsupported symbol.
C23_Witness ==
    /\ run.kind = "main" /\ run.mode = "usage"
    /\ run.symbol \notin crypto_symbols

\* C24: every fill_gaps run ends by reporting the number of ticks written,
\* also when an hour failed or a write failed part-way.
C24_SummaryAlwaysReported ==
    (run.kind = "fill" /\ run.pc \in {"done", "raised"} /\ run.outcome \notin {"no_data", "no_missing"})
        => \E i \in 1..Len(run.summary) : run.summary[i].ticks_filled = run.total_ticks

\* ------------------------------------------------------------------ repeated reconcile runs
\* What an ended fill_gaps run leaves for the next one besides the store:
\* nothing in the program; the log keeps the buckets the upstream answered
\* 404 for on every attempt.
RunEnded(r) == [ev |-> "run_ended", absent |-> r.absent]

\* fill_gaps is started again after a run that had missing buckets has ended.
FillAgain ==
    /\ run.kind = "fill" /\ run.pc \in {"done", "raised"}
    /\ run.outcome \notin {"no_data", "no_missing"}
    /\ flog = <<>>
    /\ flog' = <<RunEnded(run)>>
    /\ run' = RunNone
    /\ tasks' = <<>>
    /\ UNCHANGED <<storeVars, writeVars, fm, permits, refreshes>>

ReconcileNext == FillNext \/ FillAgain

ReconcileSpec == FillInit /\ [][ReconcileNext]_vars

\* C25: a bucket the upstream reported absent throughout one fill_gaps run
\* is not fetched again by a later fill_gaps run.
C25_ConfirmedEmptyTerminal ==
    (run.kind = "fill" /\ run.outcome \notin {"no_data", "no_missing"} /\ flog # <<>>)
        => \A i \in 1..Len(run.fetched) : run.fetched[i] \notin flog[1].absent

\* The elements of a sequence.
Range(seq) == {seq[i] : i \in 1..Len(seq)}

\* C26: in a fill_gaps run a fetch is issued only for buckets that
\* find_missing_hours returned over the stored span rounded out to whole
\* days, never for a bucket that held a tick when the run started and never
\* twice for one bucket; once the pass is over, the buckets fetched are
\* exactly the buckets returned, which are exactly the empty buckets of the span.
C26_FetchOnlyMissing ==
    (run.kind = "fill" /\ run.outcome \notin {"no_data", "no_missing"}) =>
        /\ Range(run.fetched) \subseteq Range(run.missing_hours)
        /\ Range(run.fetched) \cap run.present = {}
        /\ \A i, j \in 1..Len(run.fetched) : run.fetched[i] = run.fetched[j] => i = j
        /\ run.pc \in {"verify", "done"} =>
              /\ Range(run.fetched) = Range(run.missing_hours)
              /\ Range(run.fetched) = AllHours(run.start_date, run.end_date) \ run.present

\* A run ended its pass on a span of two days that held ticks in some buckets
\* and none in others, the missing ones lying on both days.
C26_Witness ==
    /\ run.kind = "fill" /\ run.pc = "done" /\ run.outcome \in {"all_filled", "still_missing"}
    /\ Len(run.fetched) >= 2
    /\ run.present # {}
    /\ \E i, j \in 1..Len(run.fetched) : DayOf(run.fetched[i]) # DayOf(run.fetched[j])

\* The steps of a started fill_gaps run are taken as long as they are enabled.
FillFairSpec ==
    /\ FillSpec
    /\ WF_vars(FillAcquire) /\ WF_vars(FillAttempt) /\ WF_vars(FillSleepDone)
    /\ WF_vars(FillHourAwaited) /\ WF_vars(FillSaveDay) /\ WF_vars(FillVerify)

FillPassing == run.kind = "fill" /\ run.outcome \notin {"no_data", "no_missing"}

\* C27: a fill_gaps run makes one pass over the missing buckets (no more
\* fetches than missing buckets), makes at most 3 download attempts for each,
\* has re-run the gap detector once when it ends normally, and every started
\* run ends, whatever the upstream answers.
C27_ReconcileTerminates ==
    /\ [](FillPassing =>
            /\ Len(run.fetched) <= Len(run.missing_hours)
            /\ \A i \in 1..Len(run.gets) : run.gets[i] <= MaxAttempts
            /\ \A h \in DOMAIN tasks : tasks[h].attempt < MaxAttempts
            /\ run.pc = "done" => (fm.called /\ Len(run.summary) = 1)
            /\ run.pc # "done" => ~fm.called)
    /\ (run.kind = "fill") ~> (run.pc \in {"done", "raised"})

\* A run ended with a warning: the upstream answered 404 to all three
\* attempts for every missing bucket.
C27_Witness ==
    /\ FillPassing /\ run.pc = "done" /\ run.outcome = "still_missing"
    /\ run.absent = Range(run.missing_hours)
    /\ \A i \in 1..Len(run.gets) : run.gets[i] = MaxAttempts

\* ------------------------------------------------------------------ catch-up of an explicit window (catchup_gap)
\* The instants a window is drawn from: GapHours whole hours.
CatchupTimes == 0..(GapHours * UnitsPerHour - 1)

\* SELECT cascade_forex_aggregate_refresh(:symbol, :start_time::timestamptz)
CascadeRefresh(symbol, start_time) ==
    [fn |-> "cascade_forex_aggregate_refresh", symbol |-> symbol, start_time |-> start_time]

\* A mutation of CatchupTransaction: the refresh is keyed off the hour the
\* loop started at.
CatchupTransactionHourKey(tbl, calls, symbol, from_time, all_ticks, fault) ==
    LET tx == UpsertTransaction("catchup", tbl, all_ticks, fault)
        merged == fault # -1 /\ MergeRows("catchup", tbl, all_ticks, 1, fault).ok
    IN  [tbl |-> tx.tbl, raised |-> tx.raised,
         calls |-> IF merged THEN Append(calls, CascadeRefresh(symbol, TruncHour(from_time)))
                   ELSE calls,
         events |-> IF merged THEN <<"upsert", "refresh">> ELSE <<>>,
         ticks_inserted |-> IF merged THEN Len(all_ticks) ELSE 0]

\* A mutation of CatchupTransaction: the refresh is issued after the
\* transaction of the upsert has committed.
CatchupTransactionRefreshAfterCommit(tbl, calls, symbol, from_time, all_ticks, fault) ==
    LET m == MergeRows("catchup", tbl, all_ticks, 1, fault)
        merged == fault # -1 /\ m.ok
    IN  [tbl |-> IF merged THEN m.tbl ELSE tbl,
         raised |-> ~merged \/ fault = Len(all_ticks) + 1,
         calls |-> IF merged THEN Append(calls, CascadeRefresh(symbol, from_time)) ELSE calls,
         events |-> IF merged THEN <<"upsert", "refresh">> ELSE <<>>,
         ticks_inserted |-> IF merged THEN Len(all_ticks) ELSE 0]

\* catchup_gap, the `with self.engine.begin() as conn:` block: staging
\* table, merge, stats['ticks_inserted'] = rowcount, then the cascade
\* refresh inside the same transaction; an exception rolls all of it back
\* and is re-raised.
CatchupTransaction(tbl, calls, symbol, from_time, all_ticks, fault) ==
    LET tx == UpsertTransaction("catchup", tbl, all_ticks, fault)
        merged == fault # -1 /\ MergeRows("catchup", tbl, all_ticks, 1, fault).ok
    IN  [tbl |-> tx.tbl, raised |-> tx.raised,
         calls |-> IF merged THEN Append(calls, CascadeRefresh(symbol, from_time)) ELSE calls,
         events |-> IF merged THEN <<"upsert", "refresh">> ELSE <<>>,
         ticks_inserted |-> IF merged THEN Len(all_ticks) ELSE 0]

CatchupInit ==
    /\ bitcoin_ticks = {}
    /\ forex_ticks = {}
    /\ WriteIdle
    /\ fm = FmNone
    /\ RunIdle

\* catchup_gap up to its loop.  `datetime` is the class imported by
\* `from datetime import datetime`, so `datetime.timezone.utc`, evaluated
\* only for a time without tzinfo, raises AttributeError.
catchup_gap ==
    /\ run = RunNone
    /\ \E from_time \in CatchupTimes : \E to_time \in CatchupTimes : \E from_aware, to_aware \in BOOLEAN :
          run' = [pc |-> IF from_aware /\ to_aware THEN "while" ELSE "raised",
                  kind |-> "catchup", symbol |-> "EURUSD",
                  from_time |-> from_time, to_time |-> to_time,
                  current_hour |-> TruncHour(from_time),
                  all_ticks |-> <<>>, fetched |-> <<>>,
                  stats |-> [ticks_inserted |-> 0, hours_processed |-> 0],
                  outcome |-> IF from_aware /\ to_aware THEN "running" ELSE "tz_raised"]
    /\ UNCHANGED <<storeVars, writeVars, fm, tasks, permits, refreshes, flog>>

\* One pass of `while current_hour <= to_time`.
CatchupWhile ==
    /\ run.kind = "catchup" /\ run.pc = "while"
    /\ run.current_hour <= run.to_time
    /\ \E resp \in Responses :
          run' = [run EXCEPT
                     !.all_ticks = @ \o CatchupHourBody(resp, run.symbol, run.current_hour,
                                                        run.from_time, run.to_time),
                     !.fetched = Append(@, run.current_hour),
                     !.stats.hours_processed = IF download_bi5_file(resp).raised THEN @ ELSE @ + 1,
                     !.current_hour = @ + UnitsPerHour]
    /\ UNCHANGED <<storeVars, writeVars, fm, tasks, permits, refreshes, flog>>

\* After the loop: `if all_ticks:` the bulk insert and refresh in one
\* transaction, else a warning; the stats are returned or the exception of
\* the transaction is re-raised.
CatchupBulkInsert ==
    /\ run.kind = "catchup" /\ run.pc = "while"
    /\ run.current_hour > run.to_time
    /\ IF run.all_ticks = <<>>
       THEN /\ run' = [run EXCEPT !.pc = "done", !.outcome = "no_ticks"]
            /\ UNCHANGED <<forex_ticks, refreshes, flog>>
       ELSE \E fault \in Faults(run.all_ticks) :
               LET tx == CatchupTransaction(forex_ticks, refreshes, run.symbol, run.from_time,
                                            run.all_ticks, fault)
               IN  /\ forex_ticks' = tx.tbl
                   /\ refreshes' = tx.calls
                   /\ flog' = flog \o tx.events
                   /\ run' = IF tx.raised
                             THEN [run EXCEPT !.pc = "raised", !.outcome = "insert_raised",
                                              !.stats.ticks_inserted = tx.ticks_inserted]
                             ELSE [run EXCEPT !.pc = "done", !.outcome = "committed",
                                              !.stats.ticks_inserted = tx.ticks_inserted]
    /\ UNCHANGED <<bitcoin_ticks, writeVars, fm, tasks, permits>>

CatchupNext ==
    \/ catchup_gap
    \/ CatchupWhile
    \/ CatchupBulkInsert

CatchupSpec == CatchupInit /\ [][CatchupNext]_vars

\* The hours of the window: from from_time rounded down through to_time.
WindowHours(from_time, to_time) ==
    {h \in TruncHour(from_time)..to_time : TruncHour(h) = h}

CatchupEnded == run.kind = "catchup" /\ run.pc \in {"done", "raised"}

\* What C28 says of a call that went through its loop.
WindowRespected ==
    /\ \A i \in 1..Len(run.fetched) :
          run.fetched[i] = TruncHour(run.from_time) + (i - 1) * UnitsPerHour
    /\ Range(run.fetched) = WindowHours(run.from_time, run.to_time)
    /\ \A r \in forex_ticks : run.from_time <= r.time /\ r.time <= run.to_time

\* C28: for from <= to a catchup_gap call fetches every hour from from
\* rounded down through to, each once and in ascending order, and every
\* tick it writes lies in [from, to].
C28_CatchupWindow ==
    (CatchupEnded /\ run.from_time <= run.to_time) => WindowRespected

\* C29: a catchup_gap call that writes at least one tick has issued the
\* cascade refresh exactly once, for its symbol and keyed off the caller's
\* from time, after the upsert; a call that found no tick has written
\* nothing and issued no refresh.
C29_CatchupRefresh ==
    run.kind = "catchup" =>
        /\ Len(refreshes) <= 1
        /\ forex_ticks # {} =>
              /\ run.outcome = "committed" /\ run.stats.ticks_inserted >= 1
              /\ refreshes = <<CascadeRefresh(run.symbol, run.from_time)>>
              /\ flog = <<"upsert", "refresh">>
        /\ run.outcome = "committed" => forex_ticks # {}
        /\ run.outcome = "no_ticks" => (forex_ticks = {} /\ refreshes = <<>> /\ flog = <<>>)

\* A call whose from time is not on an hour boundary committed ticks of two hours.
C29_Witness ==
    /\ run.kind = "catchup" /\ run.outcome = "committed"
    /\ TruncHour(run.from_time) # run.from_time
    /\ Cardinality({TruncHour(r.time) : r \in forex_ticks}) = 2

\* ------------------------------------------------------------------ day batches of a ranged backfill
\* The batching loop of ingest_date_range_async over ranges long enough for
\* several batches; what awaiting one day does (its downloads and its write)
\* is reduced to whether save_to_database raised.
MaxScheduleDays == 15
ScheduleMidnights == {d * UnitsPerDay : d \in 0..(MaxScheduleDays - 1)}

ScheduleInit ==
    /\ bitcoin_ticks = {}
    /\ forex_ticks = {}
    /\ WriteIdle
    /\ fm = FmNone
    /\ RunIdle

\* ingest_date_range_async up to its loop, for a supported symbol.
ScheduleStart ==
    /\ run = RunNone
    /\ \E start_date \in ScheduleMidnights : \E end_date \in ScheduleMidnights :
          run' = [pc |-> "while", kind |-> "schedule", symbol |-> "BTCUSD",
                  start_date |-> start_date, end_date |-> end_date,
                  current_date |-> start_date, batch_tasks |-> <<>>,
                  scheduled |-> <<>>, batches |-> <<>>]
    /\ UNCHANGED <<storeVars, writeVars, fm, tasks, permits, refreshes, flog>>

\* `while current_date <= end_date`: the coroutines of the next batch of
\* days are created, or the loop ends.
ScheduleBatch ==
    /\ run.kind = "schedule" /\ run.pc = "while"
    /\ IF run.current_date <= run.end_date
       THEN LET batch_end == BatchEnd(run.current_date, run.end_date)
                batch_tasks == DatesFrom(run.current_date, batch_end)
            IN  run' = [run EXCEPT !.pc = "await_day",
                                   !.batch_tasks = batch_tasks,
                                   !.scheduled = @ \o batch_tasks,
                                   !.batches = Append(@, batch_tasks),
                                   !.current_date = batch_end + UnitsPerDay]
       ELSE run' = [run EXCEPT !.pc = "done"]
    /\ UNCHANGED <<storeVars, writeVars, fm, tasks, permits, refreshes, flog>>

\* `for date, task in batch_tasks`: one day is awaited and saved; an
\* exception of save_to_database ends the run.
ScheduleDayAwaited ==
    /\ run.kind = "schedule" /\ run.pc = "await_day"
    /\ \E save_raised \in BOOLEAN :
          run' = IF save_raised THEN [run EXCEPT !.pc = "raised"]
                 ELSE IF Tail(run.batch_tasks) = <<>>
                 THEN [run EXCEPT !.pc = "while", !.batch_tasks = <<>>]
                 ELSE [run EXCEPT !.batch_tasks = Tail(@)]
    /\ UNCHANGED <<storeVars, writeVars, fm, tasks, permits, refreshes, flog>>

ScheduleNext ==
    \/ ScheduleStart
    \/ ScheduleBatch
    \/ ScheduleDayAwaited

ScheduleSpec == ScheduleInit /\ [][ScheduleNext]_vars

\* The steps of a started run are taken as long as they are enabled.
ScheduleFairSpec == ScheduleSpec /\ WF_vars(ScheduleBatch) /\ WF_vars(ScheduleDayAwaited)

\* C30: a ranged backfill schedules the days of [start, end] in ascending
\* order from start, none twice, in batches of at most 7 consecutive days,
\* each batch full unless it is the last; when its loop has ended every day
\* of the range has been scheduled exactly once, none for start > end; and
\* every started run ends.
C30_DayBatches ==
    /\ [](run.kind = "schedule" =>
            /\ \A i \in 1..Len(run.scheduled) :
                  run.scheduled[i] = run.start_date + (i - 1) * UnitsPerDay
            /\ \A i \in 1..Len(run.scheduled) : run.scheduled[i] <= run.end_date
            /\ \A b \in 1..Len(run.batches) :
                  /\ Len(run.batches[b]) >= 1 /\ Len(run.batches[b]) <= batch_size
                  /\ b < Len(run.batches) => Len(run.batches[b]) = batch_size
            /\ run.pc = "done" =>
                  Range(run.scheduled) =
                      {d \in ScheduleMidnights : run.start_date <= d /\ d <= run.end_date}
            /\ run.start_date > run.end_date => run.scheduled = <<>>)
    /\ (run.kind = "schedule") ~> (run.pc \in {"done", "raised"})

\* A run over more than two batches' worth of days has ended its loop.
C30_Witness ==
    /\ run.kind = "schedule" /\ run.pc = "done"
    /\ Len(run.batches) = 3
    /\ Len(run.scheduled) = 2 * batch_size + 1

\* ------------------------------------------------------------------ the three decoders on arbitrary blobs
MaxDecodeRecs == 2
Decoders == {"range", "crypto", "catchup"}
DecodeSymbols == {"EURUSD", "USDJPY", "BTCUSD", "ETHEUR"}
DecodeTails == {0, 1, chunk_size - 1}
DecodeRecords == {[WireRecord(off) EXCEPT !.ask_cls = cls] : off \in Offsets, cls \in FloatClasses}

\* The blobs handed to a decoder: None, empty bytes, bytes that are no LZMA
\* stream, and LZMA streams of up to MaxDecodeRecs records of any content
\* followed by a few bytes short of a record.
DecodeBlobs ==
    {NoneData, EmptyBody, CorruptBody}
        \cup {LzmaPayload(recs, tail) : recs \in SeqsUpTo(DecodeRecords, MaxDecodeRecs),
                                        tail \in DecodeTails}

\* parse_bi5_data of the ingester named.
ParseBi5(decoder, compressed_data, symbol, base_time) ==
    IF decoder = "crypto" THEN CryptoParseBi5(compressed_data, symbol, base_time)
    ELSE IF decoder = "range" THEN ForexParseBi5(compressed_data, symbol, base_time)
    ELSE CatchupParseBi5(compressed_data, symbol, base_time)

DecodeInit ==
    /\ bitcoin_ticks = {}
    /\ forex_ticks = {}
    /\ WriteIdle
    /\ fm = FmNone
    /\ RunIdle

\* One call of parse_bi5_data; every path of it returns a list.
parse_bi5_data ==
    /\ run = RunNone
    /\ \E decoder \in Decoders : \E symbol \in DecodeSymbols : \E data \in DecodeBlobs :
       \E hour \in Hours :
          run' = [pc |-> "parsed", kind |-> "decode", decoder |-> decoder, symbol |-> symbol,
                  data |-> data, base_time |-> HourStart(0, hour),
                  ticks |-> ParseBi5(decoder, data, symbol, HourStart(0, hour))]
    /\ UNCHANGED <<storeVars, writeVars, fm, tasks, permits, refreshes, flog>>

DecodeNext == parse_bi5_data

DecodeSpec == DecodeInit /\ [][DecodeNext]_vars

\* The divisor the documentation gives for a symbol.
DocumentedDivisor(symbol) ==
    IF symbol \in crypto_symbols THEN CryptoDivisor
    ELSE IF symbol \in {"USDJPY", "EURJPY"} THEN JpyDivisor
    ELSE ForexDivisor

\* C31: whichever decoder handles a symbol, the prices of every decoded
\* record are the raw prices divided by 1000 for a pair quoted in JPY, by
\* 100000 for another forex pair and by 10 for a supported cryptocurrency.
C31_PriceScale ==
    run.kind = "decode" =>
        \A i \in 1..Len(run.ticks) :
            /\ run.ticks[i].ask = ScaledPrice(run.data.records[i].ask_raw,
                                              DocumentedDivisor(run.symbol))
            /\ run.ticks[i].bid = ScaledPrice(run.data.records[i].bid_raw,
                                              DocumentedDivisor(run.symbol))

\* The record order and times of the ticks decoded from a payload.
InRecordOrder ==
    /\ Len(run.ticks) = PayloadLen(run.data) \div chunk_size
    /\ \A i \in 1..Len(run.ticks) :
          run.ticks[i].time = run.base_time + run.data.records[i].time_offset

\* The volume conversion of some record of the payload raises in the decoder.
VolumeRaises ==
    \E i \in 1..Len(run.data.records) :
        IF run.decoder = "crypto"
        THEN GuardedIntRaises(run.data.records[i].ask_cls)
                 \/ GuardedIntRaises(run.data.records[i].bid_cls)
        ELSE IntRaises(run.data.records[i].ask_cls) \/ IntRaises(run.data.records[i].bid_cls)

\* C32 as stated: the decoder returns a list for any blob; for a payload of n
\* bytes it has floor(n/20) ticks in record order, the i-th at hour_start +
\* offset of the i-th record, trailing bytes dropped; for a blob that is no
\* LZMA stream it is empty.
C32_DecoderTotality ==
    run.kind = "decode" =>
        IF run.data.bytes = "lzma" THEN InRecordOrder ELSE run.ticks = <<>>

\* C32 amended: as stated when the volume conversion of every record
\* succeeds; a payload with a record whose volume is an infinity (for the
\* forex decoders also a NaN) yields the empty list, like a blob that is no
\* LZMA stream.
C32_DecoderTotalityAmended ==
    run.kind = "decode" =>
        IF run.data.bytes = "lzma" /\ ~VolumeRaises THEN InRecordOrder ELSE run.ticks = <<>>

\* Two records at different offsets followed by 19 more bytes were decoded
\* into two ticks.
C32_Witness ==
    /\ run.kind = "decode" /\ run.data.bytes = "lzma" /\ ~VolumeRaises
    /\ run.data.tail = chunk_size - 1
    /\ Len(run.ticks) = 2
    /\ run.ticks[1].time > run.ticks[2].time

\* ------------------------------------------------------------------ search for the latest available hour
\* for hours_back in [1, 2, 0, 3, 4, 5, 6, 12, 24]
ProbeOrder == <<1, 2, 0, 3, 4, 5, 6, 12, 24>>
ProbedBack == {ProbeOrder[i] : i \in 1..Len(ProbeOrder)}
\* The current hours tried, in hours since some epoch.
ProbeNows == {24, 25}

RECURSIVE ProbeFrom(_, _, _)
\* The loop of find_latest_available_hour from position i of the list on:
\* the first check_time whose check_hour_availability is true, else None.
ProbeFrom(i, current_hour, available) ==
    IF i > Len(ProbeOrder) THEN None
    ELSE IF (current_hour - ProbeOrder[i]) \in available
         THEN Some(current_hour - ProbeOrder[i])
         ELSE ProbeFrom(i + 1, current_hour, available)

ProbeInit ==
    /\ bitcoin_ticks = {}
    /\ forex_ticks = {}
    /\ WriteIdle
    /\ fm = FmNone
    /\ RunIdle

\* One call of find_latest_available_hour; `available` are the hours for
\* which the upstream answers 200 to the HEAD request.
find_latest_available_hour ==
    /\ run = RunNone
    /\ \E current_hour \in ProbeNows :
       \E available \in SUBSET {current_hour - b : b \in ProbedBack} :
          run' = [pc |-> "probed", kind |-> "probe", current_hour |-> current_hour,
                  available |-> available,
                  result |-> ProbeFrom(1, current_hour, available)]
    /\ UNCHANGED <<storeVars, writeVars, fm, tasks, permits, refreshes, flog>>

ProbeNext == find_latest_available_hour

ProbeSpec == ProbeInit /\ [][ProbeNext]_vars

\* C33: the hour find_latest_available_hour returns is the latest of the
\* probed hours that is available, and it returns none only when no probed
\* hour is available.
C33_LatestAvailableHour ==
    run.kind = "probe" =>
        /\ run.result.has =>
              /\ run.result.t \in run.available
              /\ \A h \in run.available : h <= run.result.t
        /\ ~run.result.has => run.available = {}

\* ------------------------------------------------------------------ permits of the fetch pool
\* C34: in a ranged backfill a permit is missing from the pool exactly for
\* each hourly fetch that is between its admission and its exit, backoff
\* waits included; a fetch that returned, gave up or raised holds none, so
\* whenever no fetch is in progress every permit is free.
C34_PermitsNeverLeak ==
    SemaphoreCreated =>
        /\ permits = SemaphorePermits
                         - Cardinality({h \in DOMAIN tasks : tasks[h].pc = "attempt"})
                         - Cardinality({h \in DOMAIN tasks : tasks[h].pc = "backoff"})
        /\ (\A h \in DOMAIN tasks : tasks[h].pc \in {"queued", "returned", "raised"})
              => permits = SemaphorePermits

\* Both days of a range have been gathered, with failed fetches on each and
\* a served hour, and the pool is full again.
C34_Witness ==
    /\ SemaphoreCreated /\ tasks = <<>> /\ permits = SemaphorePermits
    /\ Cardinality(run.fetched) = 2
    /\ run.served # {}
    /\ \E a, b \in run.failed : DayOf(a) # DayOf(b)

\* ------------------------------------------------------------------ a failed day write in a ranged backfill
FailedWrites == {i \in 1..Len(flog) : flog[i].ev = "write" /\ flog[i].raised}

\* C35: once the write of a day has failed in a ranged backfill the
\* exception has left the ingester: the failed write is the last thing the
\* run did, no day after it was fetched, no refresh was issued; the failing
\* write itself leaves both tick tables as the earlier days' commits made
\* them, and nothing changes afterwards.
C35_PerDayCommit ==
    /\ []((BackfillRunning /\ FailedWrites # {}) =>
            /\ run.pc = "raised"
            /\ FailedWrites = {Len(flog)}
            /\ \A d \in run.fetched : d <= flog[Len(flog)].day
            /\ tasks = <<>>
            /\ refreshes = <<>>)
    /\ [][(BackfillRunning /\ run'.pc = "raised")
             => (bitcoin_ticks' = bitcoin_ticks /\ forex_ticks' = forex_ticks)]_vars
    /\ [][run.pc # "raised"]_vars

\* The write of the second day failed after the first day's ticks were
\* committed; they are in the table.
C35_Witness ==
    /\ BackfillRunning /\ run.pc = "raised"
    /\ Len(flog) >= 2
    /\ flog[Len(flog)] = Written(1, TRUE)
    /\ \E i \in 1..Len(flog) : flog[i] = Written(0, FALSE)
    /\ \E r \in bitcoin_ticks \cup forex_ticks : DayOf(r.time) = 0

\* ------------------------------------------------------------------ failure of the cascade refresh
\* C36: when the cascade refresh of a catchup_gap call has been issued and
\* fails, the exception is raised to the caller and none of the ticks the
\* call upserted is in the tick table.
C36_RefreshRollsBackUpsert ==
    (run.kind = "catchup" /\ refreshes # <<>> /\ run.outcome # "committed") =>
        /\ run.pc = "raised" /\ run.outcome = "insert_raised"
        /\ forex_ticks = {}

\* The refresh failed after the merge had upserted the ticks of two hours.
C36_Witness ==
    /\ run.kind = "catchup" /\ run.pc = "raised" /\ refreshes # <<>>
    /\ run.stats.ticks_inserted = 2
    /\ Len(run.fetched) = 2

\* ------------------------------------------------------------------ the Monitor over consecutive poll cycles
\* The Monitor configured with one symbol, its ingester subprocess modelled
\* from ingest_historical_data, the upstream feed fixed over the run.
ConvergeSymbols == <<"EURUSD">>
\* The hours for which the upstream may hold a file: those the signal may report.
ConvergeHours == CloudHours

\* What the upstream holds for an hour: no file, or a file of one tick at
\* the start of the hour.
FeedFiles == {[kind |-> "404"], [kind |-> "ok", body |-> LzmaBody(<<WireRecord(0)>>)]}
Feeds == [ConvergeHours -> FeedFiles]
HasTick(feed, hour) == hour \in DOMAIN feed /\ feed[hour].kind = "ok"

\* What the GETs of one ingester run return, hour by hour: the upstream's
\* file, or for one of the hours a failed request (timeout, connection
\* error, 5xx).
GetsOf(feed) == {feed} \cup {[feed EXCEPT ![h] = [kind |-> "error"]] : h \in ConvergeHours}
FailedGets(gets) == {h \in DOMAIN gets : gets[h].kind = "error"}
GetAt(gets, hour_base) == IF hour_base \in DOMAIN gets THEN gets[hour_base] ELSE [kind |-> "404"]

\* The signal's answers for the configured symbol.
ConvergeResponses ==
    {[kind |-> "fail"], [kind |-> "no_symbols"]}
        \cup {[kind |-> "ok", symbols |-> m] :
                 m \in [{"EURUSD"} -> {None} \cup {Some(h) : h \in CloudHours}]}

\* `for hour in range(24)` of one day: the ticks of the hours from `hour` on.
RECURSIVE DailyTicks(_, _, _, _)
DailyTicks(symbol, current_date, hour, gets) ==
    IF hour >= HoursPerDay THEN <<>>
    ELSE LET hour_base == current_date + hour * UnitsPerHour
         IN  ForexHourBody(GetAt(gets, hour_base), symbol, hour_base)
                 \o DailyTicks(symbol, current_date, hour + 1, gets)

\* ingest_historical_data from current_date on: every hour of every day up
\* to end_date is downloaded, a day with ticks is upserted in one
\* transaction, an exception of the upsert leaves the function.
RECURSIVE ingest_historical_data(_, _, _, _, _, _)
ingest_historical_data(tbl, symbol, current_date, end_date, gets, fault_day) ==
    IF current_date > end_date THEN [tbl |-> tbl, raised |-> FALSE]
    ELSE LET daily_ticks == DailyTicks(symbol, current_date, 0, gets)
             tx == IF daily_ticks = <<>> THEN [tbl |-> tbl, raised |-> FALSE]
                   ELSE UpsertTransaction("forex", tbl, daily_ticks,
                                          IF fault_day = current_date THEN -1 ELSE 0)
         IN  IF tx.raised THEN tx
             ELSE ingest_historical_data(tx.tbl, symbol, current_date + UnitsPerDay,
                                         end_date, gets, fault_day)

\* main of dukascopy_ingester.py: return code 0 when ingest_historical_data
\* returned, 1 when it raised.
IngesterMain(tbl, symbol, start_date, end_date, gets, fault_day) ==
    LET r == ingest_historical_data(tbl, symbol, start_date, end_date, gets, fault_day)
    IN  [tbl |-> r.tbl, outcome |-> IF r.raised THEN "failed" ELSE "ok"]

\* What a poll cycle leaves for the next one to be compared with: the signal
\* it read, the symbols whose launched ingestion returned True, and the hours
\* whose download failed in those ingestions.
NoCycle == [signal |-> [kind |-> "none"], ok |-> {}, failed |-> {}]

ConvergeInit ==
    /\ bitcoin_ticks = {}
    /\ forex_ticks \in SeedTables({r \in MonitorRows : r.symbol = "EURUSD"}, MaxSeed)
    /\ WriteIdle
    /\ fm = FmNone
    /\ run \in {[pc |-> "idle", kind |-> "converge", dry_run |-> d,
                  cloud_data |-> [kind |-> "fail"], todo |-> <<>>,
                  feed |-> f, prev |-> NoCycle, cur |-> NoCycle] :
                    d \in BOOLEAN, f \in Feeds}
    /\ tasks = <<>>
    /\ permits = 0
    /\ refreshes = <<>>
    /\ flog = <<>>

\* monitor_once up to the symbol loop.
ConvergeCycle ==
    /\ run.kind = "converge" /\ run.pc = "idle"
    /\ \E now \in ClockSamples :
          IF ~CycleProceeds(now)
          THEN /\ run' = [run EXCEPT !.pc = "sleep", !.todo = <<>>,
                                     !.prev = run.cur, !.cur = NoCycle]
               /\ flog' = <<CycleEvent(is_market_open(now))>>
          ELSE \E resp \in ConvergeResponses :
                  LET cloud_data == check_cloud_monitor(resp)
                  IN  /\ flog' = <<CycleEvent(is_market_open(now)), CloudGet(resp.kind)>>
                      /\ run' = IF ~cloud_data.has
                                THEN [run EXCEPT !.pc = "sleep", !.todo = <<>>,
                                                 !.prev = run.cur, !.cur = NoCycle]
                                ELSE [run EXCEPT !.pc = "symbols", !.todo = ConvergeSymbols,
                                                 !.cloud_data = cloud_data.data,
                                                 !.prev = run.cur,
                                                 !.cur = [signal |-> cloud_data.data, ok |-> {},
                                                          failed |-> {}]]
    /\ UNCHANGED <<storeVars, writeVars, fm, tasks, permits, refreshes>>

\* One pass of `for symbol in self.symbols`, the subprocess run to its end.
ConvergeSymbol ==
    /\ run.kind = "converge" /\ run.pc = "symbols"
    /\ LET symbol == Head(run.todo)
       IN  IF run.cloud_data.kind = "no_symbols"
           THEN /\ run' = OnCycleException(run)
                /\ flog' = flog \o <<ExceptionEvent, CooldownEvent>>
                /\ UNCHANGED forex_ticks
           ELSE LET cloud_latest == run.cloud_data.symbols[symbol]
                IN  IF ~cloud_latest.has
                    THEN /\ run' = NextSymbol(run)
                         /\ flog' = Append(flog, SkipEvent(symbol))
                         /\ UNCHANGED forex_ticks
                    ELSE \E db_ok \in BOOLEAN :
                           LET local_latest == check_local_database(forex_ticks, symbol, db_ok)
                               ingest == needs_ingestion(cloud_latest, local_latest)
                               start_date == StartDate(cloud_latest.t, local_latest)
                               end_date == EndDate(cloud_latest.t)
                               seen == <<DbRead(symbol, db_ok),
                                         Decision(symbol, cloud_latest,
                                                  StoredLatest(forex_ticks, symbol),
                                                  local_latest, ingest)>>
                           IN  IF ~ingest
                               THEN /\ run' = NextSymbol(run)
                                    /\ flog' = flog \o seen
                                    /\ UNCHANGED forex_ticks
                               ELSE \E launched \in BOOLEAN : \E gets \in GetsOf(run.feed) :
                                    \E fault_day \in {-1} \cup Midnights :
                                      LET sub == IngesterMain(forex_ticks, symbol, start_date,
                                                              end_date, gets, fault_day)
                                          outcome == IF launched THEN sub.outcome ELSE "crash"
                                          res == run_ingestion(run.dry_run, outcome)
                                      IN  /\ flog' = flog \o seen
                                                 \o <<Command(symbol, start_date, end_date)>>
                                                 \o (IF res.executed
                                                     THEN <<Subprocess(symbol, start_date,
                                                                       end_date, outcome)>>
                                                     ELSE <<>>)
                                          /\ run' = [NextSymbol(run) EXCEPT
                                                        !.cur.ok = IF res.executed /\ res.returned
                                                                   THEN @ \cup {symbol} ELSE @,
                                                        !.cur.failed =
                                                            IF res.executed /\ res.returned
                                                            THEN @ \cup FailedGets(gets) ELSE @]
                                          /\ forex_ticks' = IF res.executed /\ launched
                                                            THEN sub.tbl ELSE forex_ticks
    /\ UNCHANGED <<bitcoin_ticks, writeVars, fm, tasks, permits, refreshes>>

\* run_forever: the sleep after a cycle, or after a cycle's exception, ends.
ConvergeSleepDone ==
    /\ run.kind = "converge" /\ run.pc \in {"sleep", "cooldown"}
    /\ run' = [run EXCEPT !.pc = "idle"]
    /\ UNCHANGED <<storeVars, writeVars, fm, tasks, permits, refreshes, flog>>

ConvergeNext ==
    \/ ConvergeCycle
    \/ ConvergeSymbol
    \/ ConvergeSleepDone

ConvergeSpec == ConvergeInit /\ [][ConvergeNext]_vars

\* The symbol's ingestion, launched in the previous cycle, returned True, and
\* this cycle read the same signal.
IngestedLastCycle(symbol) ==
    /\ run.kind = "converge"
    /\ symbol \in run.prev.ok
    /\ run.cur.signal = run.prev.signal

\* C37: if the ingestion the Monitor launched for a symbol succeeded and the
\* upstream hour equal to the reported latest-available hour holds a tick,
\* then in the next poll cycle with an unchanged signal the symbol is judged
\* up to date: no ingestion is started for it.
C37_MonitorConvergence ==
    \A i \in Events("decision") :
        (/\ IngestedLastCycle(flog[i].symbol)
         /\ HasTick(run.feed, flog[i].cloud_latest.t)) => ~flog[i].ingest

\* ------------------------------------------------------------------ a failed store query
\* What monitor_once logs for a symbol whose store is empty, the signal
\* reporting cloud_latest: the command of the ingestion.
EmptyStoreCommand(symbol, cloud_latest) ==
    LET local_latest == check_local_database({}, symbol, TRUE)
    IN  IF needs_ingestion(cloud_latest, local_latest)
        THEN <<Command(symbol, StartDate(cloud_latest.t, local_latest), EndDate(cloud_latest.t))>>
        ELSE <<>>

\* C38: if the latest-tick query of a symbol fails in a poll cycle and the
\* signal reports a latest hour for the symbol, the Monitor decides to
\* ingest whatever the store holds, with the command of an empty store: the
\* window starts on the day 30 days before the reported hour and ends on the
\* day of that hour; unless it is a dry run the ingester is launched with it.
C38_FailedQueryAsNoData ==
    run.kind = "monitor" =>
        \A i \in Events("db_read") :
            ~flog[i].ok =>
                /\ Len(flog) >= i + 2
                /\ LET d == flog[i + 1]
                       symbol == flog[i].symbol
                   IN  /\ d.ev = "decision" /\ d.symbol = symbol
                       /\ d.cloud_latest.has /\ ~d.local_latest.has /\ d.ingest
                       /\ <<flog[i + 2]>> = EmptyStoreCommand(symbol, d.cloud_latest)
                       /\ flog[i + 2].start_date
                              = DayStart(d.cloud_latest.t - LookbackDays * UnitsPerDay)
                       /\ flog[i + 2].end_date = DayStart(d.cloud_latest.t)
                       /\ ~run.dry_run =>
                             /\ Len(flog) >= i + 3
                             /\ flog[i + 3].ev = "subprocess"
                             /\ flog[i + 3].symbol = symbol
                             /\ flog[i + 3].start_date = flog[i + 2].start_date
                             /\ flog[i + 3].end_date = flog[i + 2].end_date

\* The query failed for a symbol whose stored ticks reach the reported hour,
\* and the ingester was launched for the 30-day window.
C38_Witness ==
    /\ run.kind = "monitor"
    /\ \E i \in Events("db_read") :
          /\ ~flog[i].ok
          /\ Len(flog) >= i + 3
          /\ flog[i + 1].stored.has
          /\ flog[i + 1].stored.t >= flog[i + 1].cloud_latest.t
          /\ flog[i + 3].ev = "subprocess"

\* ------------------------------------------------------------------ caching of a failed availability check
\* The summary of a baseline search that found no available hour.
FailedSummary(results) ==
    /\ ~results.latest_common_hour.has
    /\ \A s \in SymbolSet :
          results.symbols[s] = [status |-> "error", latest_available |-> None]
NoBaseline(results) == results = check_all_symbols_fast(None, {})

\* C39: a summary computed without a baseline hour has every symbol with
\* latest_available null and status error and is stored in the cache like
\* any other; a summary request arriving less than 300 s after it was stored
\* gets it back unchanged, with no upstream check and the cache untouched.
C39_FailureCached ==
    (run.kind = "lambda" /\ run.last.path = "/") =>
        LET last == run.last
        IN  /\ (last.upstream /\ ~last.body.latest_common_hour.has) =>
                  /\ FailedSummary(last.body)
                  /\ run.cache.has /\ run.cache.data = last.body
                  /\ run.cache.time >= last.at
            /\ (/\ last.before.has /\ NoBaseline(last.before.data)
                /\ last.at - last.before.time < CACHE_TTL_SECONDS) =>
                  /\ ~last.upstream
                  /\ last.body = last.before.data
                  /\ FailedSummary(last.body)
                  /\ run.cache = last.before

\* A failed summary, 299 s old, was returned from the cache.
C39_Witness ==
    /\ run.kind = "lambda" /\ run.last.path = "/"
    /\ run.last.before.has /\ NoBaseline(run.last.before.data)
    /\ run.last.at - run.last.before.time = CACHE_TTL_SECONDS - 1
    /\ ~run.last.upstream
    /\ FailedSummary(run.last.body)

====
